---- MODULE Spec2Model ----
(***************************************************************************)
(* A model of the Postgres store adapter of metalab-atlas                   *)
(* (src/atlas/pg_store.py): namespace resolution, filter compilation,       *)
(* run queries with pagination, and the field index with its caches.        *)
(*                                                                          *)
(* Python values are tagged records ([t |-> "int", i |-> 5], ...), SQL      *)
(* fragments are the strings the code builds, and a Python call that can    *)
(* raise returns a record whose field `raises` names the exception ("" when *)
(* it returns normally).                                                    *)
(***************************************************************************)
EXTENDS Integers, Sequences, FiniteSets, TLC

VARIABLES
    runs,                \* database: ids of the rows written one at a time (all namespaces)
    bulk,                \* database: number of rows of the batch sweep present
    experiment_schemas,  \* adapter: self._experiment_schemas, tenant -> namespace
    last,                \* the last completed adapter call: arguments, result, SQL log
    sess,                \* a client in the middle of a sequence of query_runs calls
    ff,                  \* SpecFilter: the FieldFilter handed to the Filter Compiler
    compiled,            \* SpecFilter: the outcome of _build_field_filter(ff), or Pending
    catalog,             \* database: namespace -> state of its field_catalog table
    _field_index_cache,  \* adapter: self._field_index_cache, key -> [time, result]
    _experiments_cache,  \* adapter: self._experiments_cache, NoCache or [time, result]
    now,                 \* the clock, in seconds
    callers,             \* the request threads: the operation each runs and what is left of it
    in_use,              \* connection pool: connections checked out
    request,             \* a router-level request: the endpoint and its arguments
    response             \* its response, or NoResponse while none was computed

storeVars == <<catalog, _field_index_cache, _experiments_cache, now>>
callVars == <<callers, in_use, request, response>>
vars == <<runs, bulk, experiment_schemas, last, sess, ff, compiled, storeVars, callVars>>

(***************************************************************************)
(* Python values and the built-ins the adapter applies to them              *)
(***************************************************************************)
VInt(n) == [t |-> "int", i |-> n]
VFloat(n) == [t |-> "float", f |-> n]          \* the float n.0
VBool(b) == [t |-> "bool", b |-> b]
VStr(s) == [t |-> "str", s |-> s]
VList(items) == [t |-> "list", items |-> items]
VNone == [t |-> "none"]

Digits == <<"0", "1", "2", "3", "4", "5", "6", "7", "8", "9">>

RECURSIVE NatToStr(_)
NatToStr(n) == IF n < 10 THEN Digits[n + 1]
               ELSE NatToStr(n \div 10) \o Digits[(n % 10) + 1]

IntToStr(n) == IF n < 0 THEN "-" \o NatToStr(-n) ELSE NatToStr(n)

CharAt(s, k) == SubSeq(s, k, k)

IsDigit(c) == \E d \in 1..10 : Digits[d] = c

DigitVal(c) == (CHOOSE d \in 1..10 : Digits[d] = c) - 1

RECURSIVE DigitsToNat(_, _)
DigitsToNat(s, acc) ==
    IF s = "" THEN acc
    ELSE DigitsToNat(SubSeq(s, 2, Len(s)), 10 * acc + DigitVal(CharAt(s, 1)))

\* the decimal integer literals float() accepts: an optional sign and digits
IsIntLiteral(s) ==
    LET body == IF Len(s) > 0 /\ CharAt(s, 1) = "-" THEN SubSeq(s, 2, Len(s)) ELSE s
    IN  /\ Len(body) > 0
        /\ \A k \in 1..Len(body) : IsDigit(CharAt(body, k))

IntLiteralVal(s) ==
    IF CharAt(s, 1) = "-" THEN -DigitsToNat(SubSeq(s, 2, Len(s)), 0)
    ELSE DigitsToNat(s, 0)

\* repr(v) of a scalar, as str(list) prints its items
PyRepr(v) ==
    CASE v.t = "int" -> IntToStr(v.i)
      [] v.t = "float" -> IntToStr(v.f) \o ".0"
      [] v.t = "bool" -> IF v.b THEN "True" ELSE "False"
      [] v.t = "none" -> "None"
      [] v.t = "str" -> "'" \o v.s \o "'"
      [] OTHER -> "[...]"

RECURSIVE JoinStr(_, _)
JoinStr(sep, strs) ==
    IF Len(strs) = 0 THEN ""
    ELSE IF Len(strs) = 1 THEN strs[1]
    ELSE strs[1] \o sep \o JoinStr(sep, Tail(strs))

\* str(v), also what an f-string interpolates
PyStr(v) ==
    CASE v.t = "str" -> v.s
      [] v.t = "list" -> "[" \o JoinStr(", ", [k \in 1..Len(v.items) |-> PyRepr(v.items[k])]) \o "]"
      [] OTHER -> PyRepr(v)

\* the spellings of nan and infinity float() accepts, in any case
IsNonFiniteLiteral(s) ==
    s \in {"nan", "NaN", "NAN", "inf", "Inf", "INF", "-inf", "infinity", "Infinity",
           "-infinity"}

\* a float that is nan or an infinity
VNonFinite == [t |-> "float", f |-> 0, finite |-> FALSE]

\* float(v): the exception it raises, "" when it converts
PyFloatRaises(v) ==
    CASE v.t \in {"int", "float", "bool"} -> ""
      [] v.t = "str" ->
            IF IsIntLiteral(v.s) \/ IsNonFiniteLiteral(v.s) THEN "" ELSE "ValueError"
      [] OTHER -> "TypeError"

PyFloat(v) ==
    CASE v.t = "int" -> VFloat(v.i)
      [] v.t = "float" -> v
      [] v.t = "bool" -> VFloat(IF v.b THEN 1 ELSE 0)
      [] v.t = "str" ->
            IF IsNonFiniteLiteral(v.s) THEN VNonFinite ELSE VFloat(IntLiteralVal(v.s))

\* len(v): defined for strings and lists, TypeError otherwise
PyLenRaises(v) == IF v.t \in {"str", "list"} THEN "" ELSE "TypeError"

PyLen(v) == IF v.t = "str" THEN Len(v.s) ELSE Len(v.items)

\* list(v): the items of a list, the characters of a string
PyList(v) ==
    IF v.t = "str" THEN [k \in 1..Len(v.s) |-> VStr(CharAt(v.s, k))] ELSE v.items

\* isinstance(v, (int, float)); bool is a subclass of int
IsIntOrFloat(v) == v.t \in {"int", "float", "bool"}

\* s.split(".", 1)
RECURSIVE FirstDot(_, _)
FirstDot(s, k) ==
    IF k > Len(s) THEN 0
    ELSE IF CharAt(s, k) = "." THEN k
    ELSE FirstDot(s, k + 1)

SplitDot(s) ==
    LET d == FirstDot(s, 1)
    IN  IF d = 0 THEN <<s>> ELSE <<SubSeq(s, 1, d - 1), SubSeq(s, d + 1, Len(s))>>

\* s.replace("'", "''")
RECURSIVE EscapeQuotes(_)
EscapeQuotes(s) ==
    IF s = "" THEN ""
    ELSE (IF CharAt(s, 1) = "'" THEN "''" ELSE CharAt(s, 1)) \o EscapeQuotes(SubSeq(s, 2, Len(s)))

StartsWith(s, p) == Len(s) >= Len(p) /\ SubSeq(s, 1, Len(p)) = p

\* ", ".join(["%s"] * n)
Placeholders(n) == JoinStr(", ", [k \in 1..n |-> "%s"])

(***************************************************************************)
(* Filter Compiler: PostgresStoreAdapter._build_field_filter                *)
(***************************************************************************)
FilterOps == {"eq", "ne", "lt", "le", "gt", "ge", "contains", "in"}

_RECORD_TABLE_COLUMNS ==
    {"run_id", "experiment_id", "status", "context_fingerprint", "params_fingerprint",
     "seed_fingerprint", "started_at", "finished_at", "duration_ms"}

Returns(clause, params) == [raises |-> "", clause |-> clause, params |-> params]
Raises(exc) == [raises |-> exc, clause |-> "", params |-> <<>>]

NoOp == Returns("", <<>>)

SqlOp(op) ==
    CASE op = "eq" -> "=" [] op = "ne" -> "!=" [] op = "lt" -> "<"
      [] op = "le" -> "<=" [] op = "gt" -> ">" [] op = "ge" -> ">="

\* an `in` branch that binds one parameter too few
InClauseDropsLast(lhs, value, stringify) ==
    IF PyLenRaises(value) # "" THEN Raises(PyLenRaises(value))
    ELSE Returns(lhs \o " IN (" \o Placeholders(PyLen(value)) \o ")",
                 [k \in 1..(PyLen(value) - 1) |-> VStr(PyStr(PyList(value)[k]))])

\* the `in` branch: len(value) sizes the placeholder list, list(value) or the str() of
\* each element are the parameters
InClause(lhs, value, stringify) ==
    IF PyLenRaises(value) # "" THEN Raises(PyLenRaises(value))
    ELSE Returns(lhs \o " IN (" \o Placeholders(PyLen(value)) \o ")",
                 IF stringify
                 THEN [k \in 1..PyLen(value) |-> VStr(PyStr(PyList(value)[k]))]
                 ELSE PyList(value))

\* record.<key> with key a physical column of the runs table
ColumnFilter(col, op, value) ==
    CASE op \in {"eq", "ne", "lt", "le", "gt", "ge"} ->
            Returns(col \o " " \o SqlOp(op) \o " %s", <<value>>)
      [] op = "contains" ->
            Returns(col \o "::text ILIKE %s", <<VStr("%" \o PyStr(value) \o "%")>>)
      [] op = "in" -> InClause(col, value, FALSE)

\* a record_json branch that compiles the ordering operators like eq and ne
RecordJsonFilterOrdered(key, op, value) ==
    IF op = "contains"
    THEN Returns("(r.record_json->'" \o EscapeQuotes(key) \o "')::text ILIKE %s",
                 <<VStr("%" \o PyStr(value) \o "%")>>)
    ELSE IF op = "in"
    THEN InClause("(r.record_json->'" \o EscapeQuotes(key) \o "')::text", value, TRUE)
    ELSE Returns("(r.record_json->'" \o EscapeQuotes(key) \o "')::text " \o SqlOp(op) \o " %s",
                 <<VStr(PyStr(value))>>)

\* record.<key> with key held in record_json only (tags, warnings, notes, ...)
RecordJsonFilter(key, op, value) ==
    LET jsonb_path == "(r.record_json->'" \o EscapeQuotes(key) \o "')::text"
    IN  CASE op \in {"eq", "ne"} ->
                Returns(jsonb_path \o " " \o SqlOp(op) \o " %s", <<VStr(PyStr(value))>>)
          [] op = "contains" ->
                Returns(jsonb_path \o " ILIKE %s", <<VStr("%" \o PyStr(value) \o "%")>>)
          [] op = "in" -> InClause(jsonb_path, value, TRUE)
          [] OTHER -> NoOp

\* params.<key> and metrics.<key>: a ->> path into record_json
JsonPathFilter(jsonb_path, op, value) ==
    CASE op \in {"eq", "ne"} ->
            IF IsIntOrFloat(value)
            THEN Returns("(" \o jsonb_path \o ")::numeric " \o SqlOp(op) \o " %s", <<value>>)
            ELSE Returns(jsonb_path \o " " \o SqlOp(op) \o " %s", <<VStr(PyStr(value))>>)
      [] op \in {"lt", "le", "gt", "ge"} ->
            IF PyFloatRaises(value) # "" THEN Raises(PyFloatRaises(value))
            ELSE Returns("(" \o jsonb_path \o ")::float " \o SqlOp(op) \o " %s",
                         <<PyFloat(value)>>)
      [] op = "contains" ->
            Returns(jsonb_path \o " ILIKE %s", <<VStr("%" \o PyStr(value) \o "%")>>)
      [] op = "in" -> InClause(jsonb_path, value, TRUE)

_build_field_filter(f) ==
    LET parts == SplitDot(f.field)
    IN  IF Len(parts) # 2 THEN NoOp
        ELSE LET namespace == parts[1]
                 key == parts[2]
             IN  CASE namespace = "record" ->
                         IF key \in _RECORD_TABLE_COLUMNS
                         THEN ColumnFilter(key, f.op, f.value)
                         ELSE RecordJsonFilter(key, f.op, f.value)
                   [] namespace = "params" ->
                         JsonPathFilter("record_json->'params_resolved'->>'" \o key \o "'",
                                        f.op, f.value)
                   [] namespace = "metrics" ->
                         JsonPathFilter("record_json->'metrics'->>'" \o key \o "'",
                                        f.op, f.value)
                   [] OTHER -> NoOp      \* derived.* and every other namespace

(***************************************************************************)
(* The database the adapter reads.  It is written by another process; the   *)
(* adapter never writes it.  A run is identified by its run_id (globally    *)
(* unique); the row stored under an id is fixed.  The rows of the batch     *)
(* sweep are uniform but for their run_id.                                  *)
(***************************************************************************)
MAX_PAGE_SIZE == 1000
DEFAULT_PAGE_SIZE == 100

MaxRuns == 3            \* ids 1..MaxRuns are written one row at a time
SweepSize == 1001       \* rows the batch sweep writes at once
SweepBase == 5000       \* run ids of the sweep are SweepBase+1 .. SweepBase+SweepSize

None == "<None>"        \* Python None where a str | None is expected

\* information_schema order of the namespaces that hold a runs table
SchemaOrder == <<"s1", "s2", "s3">>
Schemas == {SchemaOrder[k] : k \in 1..Len(SchemaOrder)}
SchemaRank(s) == CHOOSE k \in 1..Len(SchemaOrder) : SchemaOrder[k] = s

IsSweep(id) == id > SweepBase

RunSchema(id) == IF IsSweep(id) THEN "s3" ELSE SchemaOrder[((id - 1) % 2) + 1]

RunExperiment(id) ==
    IF IsSweep(id) THEN "expS"
    ELSE IF id % 4 = 2 THEN "expB" ELSE "expA"

RunStatus(id) ==
    IF IsSweep(id) THEN "success"
    ELSE IF id % 4 = 3 THEN "running"
    ELSE IF id % 4 = 2 THEN "failed" ELSE "success"

\* the metrics object of record_json: a sequence of <<key, value>> pairs
RunMetrics(id) ==
    IF IsSweep(id) THEN <<(<<"score", VInt(30)>>)>>
    ELSE CASE id % 4 = 1 -> <<(<<"score", VInt(10)>>)>>
           [] id % 4 = 2 -> <<(<<"score", VInt(20)>>)>>
           [] id % 4 = 3 -> <<>>
           [] OTHER -> <<(<<"score", VStr("n/a")>>), (<<"loss", VStr("nan")>>)>>

Row(id) ==
    [run_id |-> id,
     schema |-> RunSchema(id),
     experiment_id |-> RunExperiment(id),
     status |-> RunStatus(id),
     started_at |-> IF IsSweep(id) THEN 200 ELSE 100 + (id \div 2),
     finished_at |-> IF IsSweep(id) THEN 210 ELSE 110 + (id \div 2),
     duration_ms |-> IF IsSweep(id) THEN 10 ELSE 10 * (id % 2),
     metrics |-> RunMetrics(id),
     derived |-> IF ~IsSweep(id) /\ id % 2 = 0 THEN <<(<<"x", VInt(id)>>)>> ELSE <<>>,
     has_derived |-> ~IsSweep(id) /\ id % 2 = 0]

\* the rows of all runs tables in heap order
TableIds(rs, bk) ==
    SelectSeq([k \in 1..(MaxRuns + 1) |-> k], LAMBDA k : k \in rs)
        \o [k \in 1..bk |-> SweepBase + k]

Table(rs, bk) == LET ids == TableIds(rs, bk) IN [k \in 1..Len(ids) |-> Row(ids[k])]

(***************************************************************************)
(* Namespace Resolver                                                       *)
(***************************************************************************)
\* SELECT DISTINCT experiment_id FROM <schema>.runs
ExperimentsIn(rs, bk, schema) ==
    {RunExperiment(id) : id \in {i \in rs : RunSchema(i) = schema}}
        \cup (IF bk > 0 /\ RunSchema(SweepBase + 1) = schema
              THEN {RunExperiment(SweepBase + 1)} ELSE {})

\* _refresh_schema_cache: the map is cleared, then filled namespace by namespace
\* in catalog order, a later namespace overwriting an earlier one
\* for (exp_id,) in cur.fetchall(): self._experiment_schemas[exp_id] = schema
FillSchema(map, found, schema) ==
    [e \in (DOMAIN map) \cup found |-> IF e \in found THEN schema ELSE map[e]]

RECURSIVE FillSchemaCache(_, _, _, _)
FillSchemaCache(map, rs, bk, k) ==
    IF k > Len(SchemaOrder) THEN map
    ELSE FillSchemaCache(
             FillSchema(map, ExperimentsIn(rs, bk, SchemaOrder[k]), SchemaOrder[k]),
             rs, bk, k + 1)

_refresh_schema_cache(rs, bk) == FillSchemaCache(<<>>, rs, bk, 1)

\* the statements one rediscovery executes
DiscoverySql == <<"discover_schemas">> \o [k \in 1..Len(SchemaOrder) |-> "distinct_experiments"]

\* a resolver that rediscovers on every call
AlwaysRediscover(map, rs, bk, experiment_id) ==
    [map |-> _refresh_schema_cache(rs, bk),
     schema |-> IF experiment_id \in DOMAIN _refresh_schema_cache(rs, bk)
                THEN _refresh_schema_cache(rs, bk)[experiment_id] ELSE None,
     sql |-> DiscoverySql]

\* _get_schema_for_experiment: [map, schema, sql]
_get_schema_for_experiment(map, rs, bk, experiment_id) ==
    LET miss == experiment_id \notin DOMAIN map
        m2 == IF miss THEN _refresh_schema_cache(rs, bk) ELSE map
    IN  [map |-> m2,
         schema |-> IF experiment_id \in DOMAIN m2 THEN m2[experiment_id] ELSE None,
         sql |-> IF miss THEN DiscoverySql ELSE <<>>]

\* _get_all_schemas: [map, schemas, sql]
_get_all_schemas(map, rs, bk) ==
    LET empty == DOMAIN map = {}
        m2 == IF empty THEN _refresh_schema_cache(rs, bk) ELSE map
    IN  [map |-> m2,
         schemas |-> {m2[e] : e \in DOMAIN m2},
         sql |-> IF empty THEN DiscoverySql ELSE <<>>]

Truthy(experiment_id) == experiment_id # None /\ experiment_id # ""

\* a scope that falls back to every namespace when the tenant is not found
ScopeFallsBackToAll(map, rs, bk, experiment_id) ==
    IF Truthy(experiment_id)
       /\ _get_schema_for_experiment(map, rs, bk, experiment_id).schema # None
    THEN [map |-> _get_schema_for_experiment(map, rs, bk, experiment_id).map,
          schemas |-> {_get_schema_for_experiment(map, rs, bk, experiment_id).schema},
          sql |-> _get_schema_for_experiment(map, rs, bk, experiment_id).sql]
    ELSE _get_all_schemas(_refresh_schema_cache(rs, bk), rs, bk)

\* _scope_for_experiment: [map, schemas, sql]
_scope_for_experiment(map, rs, bk, experiment_id) ==
    IF Truthy(experiment_id)
    THEN LET r == _get_schema_for_experiment(map, rs, bk, experiment_id)
         IN  [map |-> r.map,
              schemas |-> IF r.schema # None THEN {r.schema} ELSE {},
              sql |-> r.sql]
    ELSE _get_all_schemas(map, rs, bk)

(***************************************************************************)
(* What Postgres computes for the SQL text query_runs sends.  SQL values    *)
(* are NULL, numbers and text; an expression can fail (a cast of non-       *)
(* numeric text, an unknown column, an operator without a meaning for the   *)
(* operand types), which fails the statement.                               *)
(***************************************************************************)
SNull == [k |-> "null"]
SNum(n) == [k |-> "num", n |-> n]
SText(s) == [k |-> "text", s |-> s]
SErr == [k |-> "error"]

EndsWith(s, p) == Len(s) >= Len(p) /\ SubSeq(s, Len(s) - Len(p) + 1, Len(s)) = p

RECURSIVE FindSub(_, _, _)
\* the first index >= k at which p occurs in s, 0 if none
FindSub(s, p, k) ==
    IF k + Len(p) - 1 > Len(s) THEN 0
    ELSE IF SubSeq(s, k, k + Len(p) - 1) = p THEN k
    ELSE FindSub(s, p, k + 1)

RECURSIVE CountSub(_, _, _)
\* the number of non-overlapping occurrences of p in s from index k on
CountSub(s, p, k) ==
    LET at == FindSub(s, p, k)
    IN  IF at = 0 THEN 0 ELSE 1 + CountSub(s, p, at + Len(p))

Alphabet == " !%'()-./0123456789:<=>ABCDEFGHIJKLMNOPQRSTUVWXYZ[]_abcdefghijklmnopqrstuvwxyz"
CharRank(c) == FindSub(Alphabet, c, 1)

RECURSIVE TextLess(_, _)
TextLess(a, b) ==
    IF b = "" THEN FALSE
    ELSE IF a = "" THEN TRUE
    ELSE IF CharAt(a, 1) = CharAt(b, 1) THEN TextLess(SubSeq(a, 2, Len(a)), SubSeq(b, 2, Len(b)))
    ELSE CharRank(CharAt(a, 1)) < CharRank(CharAt(b, 1))

\* obj -> 'key' on a JSON object held as <<key, value>> pairs: the value, VNone if absent
JsonGet(obj, key) ==
    IF \E k \in 1..Len(obj) : obj[k][1] = key
    THEN obj[CHOOSE k \in 1..Len(obj) : obj[k][1] = key][2]
    ELSE VNone

\* obj ->> 'key': the value as text, NULL for an absent key or a JSON null
JsonText(v) ==
    CASE v.t = "none" -> SNull
      [] v.t = "str" -> SText(v.s)
      [] v.t = "bool" -> SText(IF v.b THEN "true" ELSE "false")
      [] v.t = "int" -> SText(IntToStr(v.i))
      [] v.t = "float" -> SText(IntToStr(v.f) \o ".0")
      [] OTHER -> SText(PyStr(v))

\* text::float and text::numeric
CastNum(v) ==
    CASE v.k = "null" -> SNull
      [] v.k = "num" -> v
      [] v.k = "text" ->
            IF IsIntLiteral(v.s) THEN SNum(IntLiteralVal(v.s))
            ELSE IF EndsWith(v.s, ".0") /\ IsIntLiteral(SubSeq(v.s, 1, Len(v.s) - 2))
                 THEN SNum(IntLiteralVal(SubSeq(v.s, 1, Len(v.s) - 2)))
                 ELSE SErr
      [] OTHER -> SErr

CastText(v) ==
    CASE v.k = "num" -> SText(IntToStr(v.n))
      [] OTHER -> v

\* a column of the runs table
ColumnValue(row, col) ==
    CASE col = "run_id" -> SNum(row.run_id)
      [] col = "experiment_id" -> SText(row.experiment_id)
      [] col = "status" -> SText(row.status)
      [] col = "started_at" -> SNum(row.started_at)
      [] col = "finished_at" -> SNum(row.finished_at)
      [] col = "duration_ms" -> SNum(row.duration_ms)
      [] col \in {"context_fingerprint", "params_fingerprint", "seed_fingerprint"} -> SText("fp")
      [] OTHER -> SErr                     \* column does not exist: the statement fails

\* the value of record_json -> 'section'
RecordJsonSection(row, section) ==
    CASE section = "metrics" -> row.metrics
      [] OTHER -> <<>>

\* an expression over the row aliased r, as the adapter writes it, parsed once per
\* statement: the casts applied (innermost first) to a column, to record_json -> 'a'
\* or to record_json -> 'a' ->> 'b'
RECURSIVE ParseExpr(_)
ParseExpr(e) ==
    LET Cast(inner, c) == LET d == ParseExpr(inner) IN [d EXCEPT !.casts = Append(@, c)]
    IN  CASE EndsWith(e, ")::float") /\ StartsWith(e, "(") -> Cast(SubSeq(e, 2, Len(e) - 8), "num")
          [] EndsWith(e, ")::numeric") /\ StartsWith(e, "(") ->
                Cast(SubSeq(e, 2, Len(e) - 10), "num")
          [] EndsWith(e, ")::text") /\ StartsWith(e, "(") -> Cast(SubSeq(e, 2, Len(e) - 7), "text")
          [] EndsWith(e, "::text") -> Cast(SubSeq(e, 1, Len(e) - 6), "text")
          [] StartsWith(e, "(") /\ EndsWith(e, ")") -> ParseExpr(SubSeq(e, 2, Len(e) - 1))
          [] StartsWith(e, "r.") -> ParseExpr(SubSeq(e, 3, Len(e)))
          [] StartsWith(e, "record_json->'") /\ EndsWith(e, "'") ->
                LET path == SubSeq(e, 15, Len(e) - 1)
                    arrow == FindSub(path, "'->>'", 1)
                IN  IF arrow = 0 THEN [kind |-> "json", a |-> path, b |-> "", casts |-> <<>>]
                    ELSE [kind |-> "jsontext", a |-> SubSeq(path, 1, arrow - 1),
                          b |-> SubSeq(path, arrow + 5, Len(path)), casts |-> <<>>]
          [] OTHER -> [kind |-> "col", a |-> e, b |-> "", casts |-> <<>>]

RECURSIVE ApplyCasts(_, _, _)
ApplyCasts(v, casts, k) ==
    IF k > Len(casts) THEN v
    ELSE ApplyCasts(IF casts[k] = "num" THEN CastNum(v) ELSE CastText(v), casts, k + 1)

EvalExpr(row, d) ==
    ApplyCasts(CASE d.kind = "col" -> ColumnValue(row, d.a)
                 [] d.kind = "json" ->
                       IF RecordJsonSection(row, d.a) = <<>> THEN SNull ELSE SText("{...}")
                 [] OTHER -> JsonText(JsonGet(RecordJsonSection(row, d.a), d.b)),
               d.casts, 1)

\* a bound parameter as the driver sends it
ParamValue(v) ==
    CASE v.t = "int" -> SNum(v.i)
      [] v.t = "float" -> SNum(v.f)
      [] v.t = "bool" -> SNum(IF v.b THEN 1 ELSE 0)
      [] v.t = "str" -> SText(v.s)
      [] v.t = "none" -> SNull
      [] OTHER -> SErr

\* a < b for two values of one type
SqlLess(a, b) == IF a.k = "num" THEN a.n < b.n ELSE TextLess(a.s, b.s)

\* a op b for two non-NULL values of one type
SqlHolds(a, op, b) ==
    CASE op = "=" -> a = b
      [] op = "!=" -> a # b
      [] op = "<" -> SqlLess(a, b)
      [] op = "<=" -> SqlLess(a, b) \/ a = b
      [] op = ">" -> ~SqlLess(a, b) /\ a # b
      [] op = ">=" -> ~SqlLess(a, b)
      [] op = "ILIKE" -> FindSub(a.s, SubSeq(b.s, 2, Len(b.s) - 1), 1) > 0

SqlCompareTyped(a, op, b) ==
    IF a.k = "error" \/ b.k = "error" THEN "error"
    ELSE IF a.k = "null" \/ b.k = "null" THEN "null"
    ELSE IF a.k # b.k THEN "error"
    ELSE IF op = "ILIKE" /\ a.k # "text" THEN "error"
    ELSE IF SqlHolds(a, op, b) THEN "t" ELSE "f"

\* a comparison: "t", "f", "null" (unknown) or "error"; a text parameter compared
\* with a number is an untyped literal and is read as a number
SqlCompare(a, op, b0) ==
    SqlCompareTyped(a, op, IF a.k = "num" /\ b0.k = "text" THEN CastNum(b0) ELSE b0)

\* one predicate "<expr> <op> %s" or "<expr> IN (%s, ...)", parsed once per statement
ParsePredicate(clause) ==
    LET sp == FindSub(clause, " ", 1)
        rest == SubSeq(clause, sp + 1, Len(clause))
    IN  [expr |-> ParseExpr(SubSeq(clause, 1, sp - 1)),
         op |-> SubSeq(rest, 1, FindSub(rest, " ", 1) - 1)]

\* lhs IN (...), given the comparison of lhs with each element
SqlIn(lhs, each) ==
    IF Len(each) = 0 \/ lhs.k = "error" THEN "error"            \* IN () is a syntax error
    ELSE IF \E k \in 1..Len(each) : each[k] = "error" THEN "error"
    ELSE IF \E k \in 1..Len(each) : each[k] = "t" THEN "t"
    ELSE IF \E k \in 1..Len(each) : each[k] = "null" THEN "null"
    ELSE "f"

SqlPredicate(lhs, op, ps) ==
    IF op = "IN" THEN SqlIn(lhs, [k \in 1..Len(ps) |-> SqlCompare(lhs, "=", ps[k])])
    ELSE SqlCompare(lhs, op, ps[1])

\* a parsed predicate on a row, with its parameters `ps` as the driver sends them
EvalPredicate(row, p, ps) == SqlPredicate(EvalExpr(row, p.expr), p.op, ps)

\* c1 AND c2 ...
SqlAnd(verdicts) ==
    IF \E k \in 1..Len(verdicts) : verdicts[k] = "error" THEN "error"
    ELSE IF \A k \in 1..Len(verdicts) : verdicts[k] = "t" THEN "t"
    ELSE "f"

\* WHERE c1 AND c2 ... on a row; `preds` and `params` are the parsed clauses and their
\* parameters
EvalWhere(row, preds, params) ==
    SqlAnd([k \in 1..Len(preds) |-> EvalPredicate(row, preds[k], params[k])])

(***************************************************************************)
(* Run Query / Pagination Engine: PostgresStoreAdapter.query_runs           *)
(***************************************************************************)
\* filter=None, and a FilterSpec with every field at its default
FilterNone ==
    [given |-> FALSE, experiment_id |-> None, status |-> <<>>,
     started_after |-> VNone, started_before |-> VNone, field_filters |-> <<>>]
FilterSpec(experiment_id, status, started_after, started_before, field_filters) ==
    [given |-> TRUE, experiment_id |-> experiment_id, status |-> status,
     started_after |-> started_after, started_before |-> started_before,
     field_filters |-> field_filters]

\* _slim_row_to_run_response
_slim_row_to_run_response(row) ==
    LET is_running == row.status = "running"
    IN  [run_id |-> row.run_id,
         experiment_id |-> row.experiment_id,
         status |-> row.status,
         started_at |-> row.started_at,
         finished_at |-> IF is_running THEN VNone ELSE VInt(row.finished_at),
         duration_ms |-> IF is_running THEN VNone ELSE VInt(row.duration_ms),
         metrics |-> row.metrics,
         derived_metrics |-> row.derived]

\* the field-filter loop of query_runs: each FieldFilter is compiled in turn, a
\* record.* clause that does not already name r. gets the alias, and an empty
\* fragment adds nothing.  [raises, where], where a sequence of [clause, params].
QualifiedClause(field, clause) ==
    IF StartsWith(field, "record.") /\ ~StartsWith(clause, "(r.")
    THEN "r." \o clause ELSE clause

RECURSIVE FieldFilterClauses(_, _, _)
RECURSIVE AppendFieldFilter(_, _, _, _)
FieldFilterClauses(ffs, k, where) ==
    IF k > Len(ffs) THEN [raises |-> "", where |-> where]
    ELSE AppendFieldFilter(ffs, k, where, _build_field_filter(ffs[k]))

AppendFieldFilter(ffs, k, where, c) ==
    IF c.raises # "" THEN [raises |-> c.raises, where |-> <<>>]
    ELSE FieldFilterClauses(
             ffs, k + 1,
             IF c.clause # ""
             THEN Append(where, [clause |-> QualifiedClause(ffs[k].field, c.clause),
                                 params |-> c.params])
             ELSE where)

\* the clauses for experiment_id, status, started_after and started_before
FixedClauses(filter) ==
    (IF Truthy(filter.experiment_id)
     THEN <<[clause |-> "r.experiment_id = %s",
             params |-> <<VStr(filter.experiment_id)>>]>> ELSE <<>>)
    \o (IF Len(filter.status) > 0
        THEN <<[clause |-> "r.status IN (" \o Placeholders(Len(filter.status)) \o ")",
                params |-> [k \in 1..Len(filter.status) |-> VStr(filter.status[k])]]>>
        ELSE <<>>)
    \o (IF filter.started_after # VNone
        THEN <<[clause |-> "r.started_at >= %s", params |-> <<filter.started_after>>]>>
        ELSE <<>>)
    \o (IF filter.started_before # VNone
        THEN <<[clause |-> "r.started_at <= %s", params |-> <<filter.started_before>>]>>
        ELSE <<>>)

\* where_clauses and params of query_runs: [raises, where]
WhereClauses(filter) ==
    IF ~filter.given THEN [raises |-> "", where |-> <<>>]
    ELSE FieldFilterClauses(filter.field_filters, 1, FixedClauses(filter))

\* the ORDER BY expression chosen for sort_by
SortColumn(sort_by) ==
    IF sort_by = None \/ sort_by = "" THEN "started_at"
    ELSE IF StartsWith(sort_by, "record.") THEN SplitDot(sort_by)[2]
    ELSE IF StartsWith(sort_by, "params.")
         THEN "(record_json->'params_resolved'->>'" \o SplitDot(sort_by)[2] \o "')"
    ELSE IF StartsWith(sort_by, "metrics.")
         THEN "(record_json->'metrics'->>'" \o SplitDot(sort_by)[2] \o "')::float"
    ELSE "started_at"

\* an ORDER BY without the secondary key
NoTieBreak(a, b) == 0

\* the secondary ORDER BY key r.run_id: <0, 0, >0 as a sorts before, with, after b
TieBreak(a, b) == a.run_id - b.run_id

\* ascending order of two ORDER BY keys, NULLS LAST: <0, 0, >0
KeyOrder(ka, kb) ==
    IF ka.k = "null" THEN (IF kb.k = "null" THEN 0 ELSE 1)
    ELSE IF kb.k = "null" THEN -1
    ELSE IF ka = kb THEN 0
    ELSE IF ka.k = "num" THEN (IF ka.n < kb.n THEN -1 ELSE 1)
    ELSE IF TextLess(ka.s, kb.s) THEN -1 ELSE 1

\* ORDER BY <sort key> dir, r.run_id dir: c1 and c2 are the orders of the two keys.
\* Rows the ORDER BY leaves tied come out in an order the plan chooses (`scan`: the
\* heap order or its reverse).
ComesBefore(c1, c2, xpos, ypos, desc, scan) ==
    IF c1 # 0 THEN (IF desc THEN c1 > 0 ELSE c1 < 0)
    ELSE IF c2 # 0 THEN (IF desc THEN c2 > 0 ELSE c2 < 0)
    ELSE IF scan = "heap" THEN xpos < ypos ELSE xpos > ypos

RowsOf(keyed) == [k \in 1..Len(keyed) |-> keyed[k].row]

OrderedRows(rows, sort_expr, desc, scan) ==
    RowsOf(SortSeq(
        [k \in 1..Len(rows) |->
            [row |-> rows[IF desc THEN Len(rows) + 1 - k ELSE k],
             key |-> EvalExpr(rows[IF desc THEN Len(rows) + 1 - k ELSE k], sort_expr),
             pos |-> IF desc THEN Len(rows) + 1 - k ELSE k]],
        LAMBDA x, y : ComesBefore(KeyOrder(x.key, y.key), TieBreak(x.row, y.row),
                                  x.pos, y.pos, desc, scan)))

Min(a, b) == IF a < b THEN a ELSE b

SqlLimitOffset(rows, limit, offset) ==
    SubSeq(rows, offset + 1, Min(Len(rows), offset + limit))

QueryResult(exc, page, total, sql, map) ==
    [raises |-> exc, runs |-> page, total |-> total, sql |-> sql, map |-> map]

\* the rows of `scoped` whose WHERE verdict is true, in heap order
MatchingRows(scoped, verdict) ==
    LET idx == SelectSeq([k \in 1..Len(scoped) |-> k], LAMBDA k : verdict[k] = "t")
    IN  [k \in 1..Len(idx) |-> scoped[idx[k]]]

\* the page statement: SELECT ... ORDER BY ... LIMIT ... OFFSET over the matching rows
PageStatement(scope, matching, sort_expr, desc, limit, offset, scan) ==
    IF \/ sort_expr.kind = "col" /\ sort_expr.a \notin _RECORD_TABLE_COLUMNS
       \/ \E k \in 1..Len(matching) : EvalExpr(matching[k], sort_expr).k = "error"
    THEN QueryResult("psycopg.Error", <<>>, 0, scope.sql \o <<"count", "page">>, scope.map)
    ELSE QueryResult(
             "",
             LET page == SqlLimitOffset(OrderedRows(matching, sort_expr, desc, scan),
                                        limit, offset)
             IN  [k \in 1..Len(page) |-> _slim_row_to_run_response(page[k])],
             Len(matching), scope.sql \o <<"count", "page">>, scope.map)

\* the count statement SELECT COUNT( * ) ... WHERE, then the page statement
CountStatement(scope, scoped, verdict, sort_expr, desc, limit, offset, scan) ==
    IF \E k \in 1..Len(scoped) : verdict[k] = "error"
    THEN QueryResult("psycopg.Error", <<>>, 0, scope.sql \o <<"count">>, scope.map)
    ELSE PageStatement(scope, MatchingRows(scoped, verdict), sort_expr, desc, limit,
                       offset, scan)

\* the statements of query_runs on the rows of the namespaces in scope
RunStatements(scope, scoped, preds, params, sort_expr, desc, limit, offset, scan) ==
    CountStatement(scope, scoped,
                   [k \in 1..Len(scoped) |-> EvalWhere(scoped[k], preds, params)],
                   sort_expr, desc, limit, offset, scan)

ScopedQuery(scope, w, table, sort_col, desc, limit, offset, scan) ==
    IF scope.schemas = {} THEN QueryResult("", <<>>, 0, scope.sql, scope.map)
    ELSE IF w.raises # "" THEN QueryResult(w.raises, <<>>, 0, scope.sql, scope.map)
    ELSE RunStatements(
             scope,
             SelectSeq(table, LAMBDA row : row.schema \in scope.schemas),
             [k \in 1..Len(w.where) |-> ParsePredicate(w.where[k].clause)],
             [k \in 1..Len(w.where) |->
                 [j \in 1..Len(w.where[k].params) |-> ParamValue(w.where[k].params[j])]],
             ParseExpr(sort_col), desc, limit, offset, scan)

\* query_runs(filter, sort_by, sort_order, limit, offset) on the database (rs, bk) with
\* the resolver cache `map`
query_runs(map, rs, bk, filter, sort_by, sort_order, limit0, offset, scan) ==
    ScopedQuery(_scope_for_experiment(map, rs, bk, filter.experiment_id),
                WhereClauses(filter), Table(rs, bk), SortColumn(sort_by),
                sort_order = "desc", Min(limit0, MAX_PAGE_SIZE), offset, scan)

(***************************************************************************)
(* SpecFilter: the Filter Compiler applied to bounded FieldFilters          *)
(***************************************************************************)
MaxListLen == 2

FilterFields ==
    {"status", "record.status", "record.run_id", "record.tags", "record.it's",
     "params.lr", "params.a.b", "metrics.score", "derived.x", "extra.y", ".z"}

ScalarValues ==
    {VInt(5), VInt(-80), VFloat(-80), VBool(TRUE), VNone, VStr("abc"), VStr("12"), VStr("")}

ListItems == {VInt(1), VStr("a"), VNone}

RECURSIVE SeqsUpTo(_, _)
SeqsUpTo(S, n) ==
    IF n = 0 THEN {<<>>}
    ELSE LET shorter == SeqsUpTo(S, n - 1)
         IN  shorter \cup {Append(q, x) : q \in {r \in shorter : Len(r) = n - 1}, x \in S}

FilterValues == ScalarValues \cup {VList(q) : q \in SeqsUpTo(ListItems, MaxListLen)}

FieldFilters == [field : FilterFields, op : FilterOps, value : FilterValues]

Pending == [raises |-> "pending", clause |-> "", params |-> <<>>]
NoFilter == [field |-> "", op |-> "eq", value |-> VNone]

NoCall == [op |-> "none"]
NoSession == [phase |-> "idle"]
NoCache == [time |-> -1]
NoRequest == [endpoint |-> "none"]
NoResponse == [status |-> "none"]

\* no request thread is inside an operation, no connection is checked out
CallersIdle ==
    /\ callers = <<>>
    /\ in_use = 0
    /\ request = NoRequest
    /\ response = NoResponse

\* the field index and its caches as the constructor leaves them, on a database
\* without field_catalog tables
StoreIdle ==
    /\ catalog = [s \in Schemas |-> "absent"]
    /\ _field_index_cache = <<>>
    /\ _experiments_cache = NoCache
    /\ now = 0
    /\ CallersIdle

InitFilter ==
    /\ ff \in FieldFilters
    /\ compiled = Pending
    /\ runs = {} /\ bulk = 0
    /\ experiment_schemas = <<>>
    /\ last = NoCall
    /\ sess = NoSession
    /\ StoreIdle

Compile ==
    /\ compiled = Pending
    /\ compiled' = _build_field_filter(ff)
    /\ UNCHANGED <<callVars, ff, runs, bulk, experiment_schemas, last, sess, storeVars>>

NextFilter == Compile

SpecFilter == InitFilter /\ [][NextFilter]_vars

\* C4: compiling any FieldFilter (any field, operator and value) does not raise: it
\* yields a predicate fragment or the empty no-op fragment.
C4_CompileNeverRaises == compiled # Pending => compiled.raises = ""

FieldNamespace(field) == IF Len(SplitDot(field)) = 2 THEN SplitDot(field)[1] ELSE ""

\* an op=in filter over an n-element list has been compiled
InListCompiled == compiled # Pending /\ ff.op = "in" /\ ff.value.t = "list"

\* the fragment is an IN clause with n placeholders, bound to the n items in list order
InClauseOfArity(c, items) ==
    /\ c.raises = ""
    /\ FindSub(c.clause, " IN (", 1) > 0
    /\ CountSub(c.clause, "%s", 1) = Len(items)
    /\ Len(c.params) = Len(items)
    /\ \A k \in 1..Len(items) : c.params[k] \in {items[k], VStr(PyStr(items[k]))}

\* C6 as stated: for every filter, op=in with an n-element list yields an IN (...)
\* clause with exactly n placeholders and exactly n bound parameters, in list order.
C6_InEveryField == InListCompiled => InClauseOfArity(compiled, ff.value.items)

\* C6: for every filter on a record.*, params.* or metrics.* field, op=in with an
\* n-element list yields an IN (...) clause with exactly n placeholders and exactly n
\* bound parameters, in list order.
C6_In ==
    InListCompiled /\ FieldNamespace(ff.field) \in {"record", "params", "metrics"}
        => InClauseOfArity(compiled, ff.value.items)

\* a two-element list compiled for a metrics field
C6_InWitness ==
    /\ InListCompiled
    /\ ff.field = "metrics.score" /\ ff.value.items = <<VInt(1), VStr("a")>>
    /\ compiled.clause = "record_json->'metrics'->>'score' IN (%s, %s)"
    /\ compiled.params = <<VStr("1"), VStr("a")>>

(***************************************************************************)
(* SpecPages: another process writes runs; a client pages through           *)
(* query_runs with a fixed filter, sort and page limit while the data is    *)
(* unchanged, fetching after every page the single page that should equal   *)
(* the pages read so far.                                                   *)
(***************************************************************************)
MaxPages == 3

PageFilters ==
    {FilterNone,
     FilterSpec("expA", <<"success", "running">>, VInt(100), VNone, <<>>)}

PageSortFields == {None, "metrics.score"}
SortOrders == {"asc", "desc"}
Limits == {1, 2, MAX_PAGE_SIZE \div 2, MAX_PAGE_SIZE, MAX_PAGE_SIZE + 1}
Scans == {"heap", "reverse"}

InitPages ==
    /\ runs = {} /\ bulk = 0
    /\ experiment_schemas = _refresh_schema_cache({}, 0)
    /\ last = NoCall
    /\ sess = NoSession
    /\ ff = NoFilter
    /\ compiled = Pending
    /\ StoreIdle

\* the writer adds one run
InsertRun ==
    /\ sess.phase = "idle"
    /\ \E id \in (1..MaxRuns) \ runs : runs' = runs \cup {id}
    /\ UNCHANGED <<callVars, bulk, experiment_schemas, last, sess, ff, compiled, storeVars>>

\* the writer adds the rows of a batch sweep, its last write
InsertSweep ==
    /\ sess.phase = "idle"
    /\ bulk = 0 /\ runs = 1..MaxRuns
    /\ bulk' = SweepSize
    /\ UNCHANGED <<callVars, runs, experiment_schemas, last, sess, ff, compiled, storeVars>>

StartPaging ==
    /\ sess.phase = "idle"
    /\ \E f \in PageFilters, sb \in PageSortFields, so \in SortOrders, L \in Limits :
          sess' = [phase |-> "page", filter |-> f, sort_by |-> sb, sort_order |-> so,
                   limit |-> L, k |-> 0, acc |-> <<>>, total |-> 0, whole |-> <<>>]
    /\ UNCHANGED <<callVars, runs, bulk, experiment_schemas, last, ff, compiled, storeVars>>

\* the client takes the result r of a page call
PageFetched(r) ==
    /\ experiment_schemas' = r.map
    /\ sess' = IF r.raises # "" THEN [sess EXCEPT !.phase = "failed"]
               ELSE [sess EXCEPT !.phase = "whole", !.k = @ + 1,
                                 !.acc = @ \o r.runs, !.total = r.total]

\* the client takes the result r of the single call
WholeFetched(r) ==
    /\ experiment_schemas' = r.map
    /\ sess' = IF r.raises # "" THEN [sess EXCEPT !.phase = "failed"]
               ELSE [sess EXCEPT
                       !.phase = IF sess.k * sess.limit >= sess.total \/ sess.k >= MaxPages
                                 THEN "done" ELSE "page",
                       !.whole = r.runs]

\* the client calls query_runs for the next page, offset k*L
FetchPage ==
    /\ sess.phase = "page"
    /\ \E scan \in Scans :
          PageFetched(query_runs(experiment_schemas, runs, bulk, sess.filter, sess.sort_by,
                                 sess.sort_order, sess.limit, sess.k * sess.limit, scan))
    /\ UNCHANGED <<callVars, runs, bulk, last, ff, compiled, storeVars>>

\* the client calls query_runs once for everything read so far: limit k*L, offset 0
FetchWhole ==
    /\ sess.phase = "whole"
    /\ \E scan \in Scans :
          WholeFetched(query_runs(experiment_schemas, runs, bulk, sess.filter, sess.sort_by,
                                  sess.sort_order, sess.k * sess.limit, 0, scan))
    /\ UNCHANGED <<callVars, runs, bulk, last, ff, compiled, storeVars>>

EndPaging ==
    /\ sess.phase \in {"done", "failed"}
    /\ sess' = NoSession
    /\ UNCHANGED <<callVars, runs, bulk, experiment_schemas, last, ff, compiled, storeVars>>

NextPages ==
    \/ InsertRun
    \/ InsertSweep
    \/ StartPaging
    \/ FetchPage
    \/ FetchWhole
    \/ EndPaging

SpecPages == InitPages /\ [][NextPages]_vars

(***************************************************************************)
(* Pagination properties.  A session has read the pages 0 .. k-1 of limit L *)
(* into `acc` (offsets 0, L, ..., (k-1)L) and, once its phase is "page" or  *)
(* "done", the single page of limit k*L at offset 0 into `whole`.           *)
(***************************************************************************)
PagesRead == sess.phase \in {"page", "done"} /\ sess.k >= 1

\* C1 as stated: for any L >= 1 the pages read until offset reaches the total have
\* sizes that sum to total, and the concatenation of the pages read so far equals
\* the single page of limit k*L at offset 0, run for run.
C1_PagesAnyLimit ==
    PagesRead =>
        /\ sess.acc = sess.whole
        /\ (sess.k * sess.limit >= sess.total => Len(sess.acc) = sess.total)

\* C1: for 1 <= L <= MAX_PAGE_SIZE the pages read until offset reaches the total have
\* sizes that sum to total, and while k*L <= MAX_PAGE_SIZE the concatenation of the
\* pages read so far equals the single page of limit k*L at offset 0, run for run.
C1_Pages ==
    PagesRead =>
        /\ (sess.k * sess.limit <= MAX_PAGE_SIZE => sess.acc = sess.whole)
        /\ (sess.limit <= MAX_PAGE_SIZE /\ sess.k * sess.limit >= sess.total
               => Len(sess.acc) = sess.total)

\* three pages over rows tied on the sort key have been read to the end
C1_PagesWitness ==
    /\ sess.phase = "done" /\ sess.k = 3 /\ sess.limit = 1
    /\ sess.total = 3 /\ Len(sess.acc) = 3 /\ sess.acc = sess.whole
    /\ sess.sort_by = None /\ sess.sort_order = "desc"
    /\ \E i, j \in 1..3 : i # j /\ sess.acc[i].started_at = sess.acc[j].started_at

(***************************************************************************)
(* SpecQuery: query_runs and the Namespace Resolver on a database that      *)
(* grows while the adapter runs.  A client calls query_runs with a field    *)
(* filter added to its FilterSpec and then the same call without it; the    *)
(* database does not change between the two.                                *)
(***************************************************************************)
Tenants == {"expA", "expB", "ghost"}

BaseFilters ==
    {FilterSpec(None, <<>>, VNone, VNone, <<>>),
     FilterSpec("expA", <<>>, VNone, VNone, <<>>),
     FilterSpec("ghost", <<>>, VNone, VNone, <<>>),
     FilterSpec(None, <<"success", "failed">>, VNone, VNone, <<>>)}

ExtraFilters ==
    {[field |-> "derived.x", op |-> "gt", value |-> VInt(5)],
     [field |-> "status", op |-> "eq", value |-> VStr("failed")],
     [field |-> "extra.y", op |-> "in", value |-> VList(<<VInt(1)>>)],
     [field |-> "record.tags", op |-> "lt", value |-> VInt(5)],
     [field |-> "record.status", op |-> "eq", value |-> VStr("success")],
     [field |-> "metrics.score", op |-> "gt", value |-> VInt(15)],
     [field |-> "metrics.score", op |-> "gt", value |-> VStr("abc")]}

QuerySortFields == {None, "metrics.score"}
QueryLimits == {1, DEFAULT_PAGE_SIZE}
QueryOffsets == {0, 1}

WithFieldFilter(filter, g) ==
    FilterSpec(filter.experiment_id, filter.status, filter.started_after,
               filter.started_before, Append(filter.field_filters, g))

NoResult == QueryResult("pending", <<>>, 0, <<>>, <<>>)

InitQuery ==
    /\ runs = {} /\ bulk = 0
    /\ experiment_schemas = _refresh_schema_cache({}, 0)
    /\ last = NoCall
    /\ sess = NoSession
    /\ ff = NoFilter
    /\ compiled = Pending
    /\ StoreIdle

\* a completed query_runs call: its arguments, the database and the resolver cache it
\* ran on, and what it returned
QueryCall(filter, r) ==
    [op |-> "query_runs", filter |-> filter, db |-> runs, pre_map |-> experiment_schemas,
     result |-> r]

FirstAnswered(f, g, sb, L, off, r) ==
    /\ experiment_schemas' = r.map
    /\ sess' = [phase |-> "compare", filter |-> f, extra |-> g, sort_by |-> sb, limit |-> L,
                offset |-> off, first |-> r, second |-> NoResult]
    /\ last' = QueryCall(WithFieldFilter(f, g), r)

\* the client calls query_runs with the field filter g added to its filter
QueryWithFilter ==
    /\ sess.phase = "idle"
    /\ \E f \in BaseFilters, g \in ExtraFilters, sb \in QuerySortFields, L \in QueryLimits,
          off \in QueryOffsets, scan \in Scans :
          FirstAnswered(f, g, sb, L, off,
                        query_runs(experiment_schemas, runs, bulk, WithFieldFilter(f, g), sb,
                                   "desc", L, off, scan))
    /\ UNCHANGED <<callVars, runs, bulk, ff, compiled, storeVars>>

SecondAnswered(r) ==
    /\ experiment_schemas' = r.map
    /\ sess' = [sess EXCEPT !.phase = "compared", !.second = r]
    /\ last' = QueryCall(sess.filter, r)

\* the client repeats the call without the field filter
QueryWithoutFilter ==
    /\ sess.phase = "compare"
    /\ \E scan \in Scans :
          SecondAnswered(query_runs(experiment_schemas, runs, bulk, sess.filter, sess.sort_by,
                                    "desc", sess.limit, sess.offset, scan))
    /\ UNCHANGED <<callVars, runs, bulk, ff, compiled, storeVars>>

EndCompare ==
    /\ sess.phase = "compared"
    /\ sess' = NoSession
    /\ UNCHANGED <<callVars, runs, bulk, experiment_schemas, last, ff, compiled, storeVars>>

Resolved(experiment_id, r) ==
    /\ experiment_schemas' = r.map
    /\ last' = [op |-> "_get_schema_for_experiment", experiment_id |-> experiment_id,
                db |-> runs, pre_map |-> experiment_schemas, result |-> r]

\* a caller resolves a tenant
ResolveTenant ==
    /\ sess.phase = "idle"
    /\ \E t \in Tenants :
          Resolved(t, _get_schema_for_experiment(experiment_schemas, runs, bulk, t))
    /\ UNCHANGED <<callVars, runs, bulk, sess, ff, compiled, storeVars>>

NextQuery ==
    \/ InsertRun
    \/ QueryWithFilter
    \/ QueryWithoutFilter
    \/ EndCompare
    \/ ResolveTenant

SpecQuery == InitQuery /\ [][NextQuery]_vars

\* no namespace holds a run of tenant t
Unresolvable(t, db) == \A s \in Schemas : t \notin ExperimentsIn(db, 0, s)

CountIn(seq, x) == Cardinality({k \in 1..Len(seq) : seq[k] = x})

\* C2: _get_schema_for_experiment on a tenant in the cached map returns its namespace
\* without running discovery; on a tenant not in the map it runs exactly one full
\* rediscovery and returns the namespace found, or none if none holds the tenant.
C2_Resolve ==
    last.op = "_get_schema_for_experiment" =>
        IF last.experiment_id \in DOMAIN last.pre_map
        THEN /\ last.result.schema = last.pre_map[last.experiment_id]
             /\ last.result.sql = <<>>
             /\ last.result.map = last.pre_map
        ELSE /\ CountIn(last.result.sql, "discover_schemas") = 1
             /\ (last.result.schema = None <=> Unresolvable(last.experiment_id, last.db))
             /\ (last.result.schema # None =>
                    last.experiment_id \in ExperimentsIn(last.db, 0, last.result.schema))

\* a tenant written after the map was built is found by the rediscovery
C2_ResolveWitness ==
    /\ last.op = "_get_schema_for_experiment"
    /\ last.experiment_id = "expB" /\ "expA" \in DOMAIN last.pre_map
    /\ "expB" \notin DOMAIN last.pre_map
    /\ last.result.schema = "s2" /\ last.result.sql = DiscoverySql

\* C3: query_runs whose filter names a tenant that no namespace holds returns ([], 0)
\* without raising and without executing its count statement or its page statement.
C3_EmptyScope ==
    /\ last.op = "query_runs"
    /\ Truthy(last.filter.experiment_id)
    /\ Unresolvable(last.filter.experiment_id, last.db)
    => /\ last.result.raises = ""
       /\ last.result.runs = <<>> /\ last.result.total = 0
       /\ CountIn(last.result.sql, "count") = 0 /\ CountIn(last.result.sql, "page") = 0

\* an unknown tenant queried on a database that holds runs of other tenants
C3_EmptyScopeWitness ==
    /\ last.op = "query_runs" /\ last.filter.experiment_id = "ghost"
    /\ last.db = 1..MaxRuns
    /\ last.result.raises = "" /\ last.result.total = 0
    /\ last.result.sql = DiscoverySql

\* a filter the compiler leaves out: no dot, a namespace other than record, params and
\* metrics, or an ordering operator on a record key that is not a physical column
OmittedFilter(g) ==
    \/ Len(SplitDot(g.field)) # 2
    \/ FieldNamespace(g.field) \notin {"record", "params", "metrics"}
    \/ /\ FieldNamespace(g.field) = "record"
       /\ SplitDot(g.field)[2] \notin _RECORD_TABLE_COLUMNS
       /\ g.op \in {"lt", "le", "gt", "ge"}

\* C5: such a filter compiles to the empty fragment with no bound parameters, and
\* query_runs given it returns the same page and total as the same call without it.
C5_OmittedFilter ==
    sess.phase = "compared" /\ OmittedFilter(sess.extra) =>
        /\ _build_field_filter(sess.extra) = NoOp
        /\ sess.first.raises = sess.second.raises
        /\ sess.first.runs = sess.second.runs
        /\ sess.first.total = sess.second.total

\* record.tags < 5 added to a query that returns a page of several matching runs
C5_OmittedFilterWitness ==
    /\ sess.phase = "compared"
    /\ sess.extra = [field |-> "record.tags", op |-> "lt", value |-> VInt(5)]
    /\ sess.first.raises = "" /\ sess.first.total = 3 /\ Len(sess.first.runs) = 2
    /\ sess.first.runs = sess.second.runs

(***************************************************************************)
(* Field Index: get_field_index with its catalog and introspection paths,   *)
(* list_experiments and refresh.  A FieldIndex is its run_count and, per    *)
(* namespace, the names of the fields found.  Each call is modelled as one  *)
(* atomic step of the adapter.                                              *)
(***************************************************************************)
_cache_ttl == 60
SampleLimit == 1000

FieldIndex(run_count, params_fields, metrics_fields, derived_fields, record_fields) ==
    [run_count |-> run_count, params_fields |-> params_fields,
     metrics_fields |-> metrics_fields, derived_fields |-> derived_fields,
     record_fields |-> record_fields]

EmptyIndex == FieldIndex(0, {}, {}, {}, {})

\* the rows of <schema>.field_catalog: <<namespace, field_name, count>>
CatalogRows(cat, schema) ==
    IF cat[schema] # "filled" THEN {}
    ELSE IF schema = "s1" THEN {<<"metrics", "score", 2>>, <<"record", "status", 1>>}
    ELSE {<<"metrics", "score", 2>>, <<"derived", "x", 1>>}

CatalogFields(cat, schemas, namespace) ==
    {row[2] : row \in {r \in UNION {CatalogRows(cat, sc) : sc \in schemas} : r[1] = namespace}}

\* SELECT COUNT( * ) FROM <schema>.runs [WHERE experiment_id = %s]
CountRuns(rs, bk, schema, experiment_id) ==
    Cardinality({id \in rs : /\ RunSchema(id) = schema
                             /\ (Truthy(experiment_id) => RunExperiment(id) = experiment_id)})
        + (IF /\ bk > 0 /\ RunSchema(SweepBase + 1) = schema
              /\ (Truthy(experiment_id) => RunExperiment(SweepBase + 1) = experiment_id)
           THEN bk ELSE 0)

RECURSIVE SumOver(_, _, _, _, _)
SumOver(schemas, rs, bk, experiment_id, k) ==
    IF k > Len(SchemaOrder) THEN 0
    ELSE (IF SchemaOrder[k] \in schemas THEN CountRuns(rs, bk, SchemaOrder[k], experiment_id)
          ELSE 0)
         + SumOver(schemas, rs, bk, experiment_id, k + 1)

\* the statements the catalog path executes for the namespaces it visits
RECURSIVE CatalogSql(_, _, _)
CatalogSql(cat, schemas, k) ==
    IF k > Len(SchemaOrder) THEN <<>>
    ELSE (IF SchemaOrder[k] \notin schemas THEN <<>>
          ELSE IF cat[SchemaOrder[k]] = "absent" THEN <<"catalog_exists">>
          ELSE <<"catalog_exists", "catalog_read", "count_runs">>)
         \o CatalogSql(cat, schemas, k + 1)

IndexResult(map, result, sql, path) ==
    [map |-> map, result |-> result, sql |-> sql, path |-> path]

\* the catalog path on the namespaces `scope` resolved: a namespace without a
\* field_catalog table is skipped, its runs are not counted
CatalogIndex(scope, rs, bk, cat, experiment_id) ==
    IF scope.schemas = {} THEN IndexResult(scope.map, EmptyIndex, scope.sql, "catalog")
    ELSE IndexResult(
             scope.map,
             FieldIndex(
                 SumOver({sc \in scope.schemas : cat[sc] # "absent"}, rs, bk, experiment_id, 1),
                 CatalogFields(cat, scope.schemas, "params"),
                 CatalogFields(cat, scope.schemas, "metrics"),
                 CatalogFields(cat, scope.schemas, "derived"),
                 CatalogFields(cat, scope.schemas, "record")),
             scope.sql \o CatalogSql(cat, scope.schemas, 1),
             "catalog")

_get_field_index_from_catalog(map, rs, bk, cat, experiment_id) ==
    CatalogIndex(_scope_for_experiment(map, rs, bk, experiment_id), rs, bk, cat,
                 experiment_id)

\* the rows the introspection path samples in one namespace: the SampleLimit most recent
SampledRows(rs, bk, schema, experiment_id) ==
    SqlLimitOffset(
        OrderedRows(
            SelectSeq(Table(rs, bk),
                      LAMBDA row : /\ row.schema = schema
                                   /\ (Truthy(experiment_id) =>
                                          row.experiment_id = experiment_id)),
            ParseExpr("started_at"), TRUE, "heap"),
        SampleLimit, 0)

KeysOf(obj) == {obj[k][1] : k \in 1..Len(obj)}

MetricsSeen(rows) == UNION {KeysOf(rows[k].metrics) : k \in 1..Len(rows)}

\* keys of the derived table rows joined to the runs of the tenant
DerivedSeen(rs, bk, schema, experiment_id) ==
    UNION {KeysOf(Row(id).derived) :
             id \in {i \in rs : /\ RunSchema(i) = schema /\ Row(i).has_derived
                                /\ (Truthy(experiment_id) =>
                                       RunExperiment(i) = experiment_id)}}

RECURSIVE JsonbSql(_, _)
JsonbSql(schemas, k) ==
    IF k > Len(SchemaOrder) THEN <<>>
    ELSE (IF SchemaOrder[k] \in schemas
          THEN <<"sample_runs", "sample_derived", "count_runs">> ELSE <<>>)
         \o JsonbSql(schemas, k + 1)

JsonbIndex(scope, rs, bk, experiment_id) ==
    IF scope.schemas = {} THEN IndexResult(scope.map, EmptyIndex, scope.sql, "jsonb")
    ELSE IndexResult(
             scope.map,
             FieldIndex(
                 SumOver(scope.schemas, rs, bk, experiment_id, 1),
                 {},
                 UNION {MetricsSeen(SampledRows(rs, bk, sc, experiment_id)) :
                          sc \in scope.schemas},
                 UNION {DerivedSeen(rs, bk, sc, experiment_id) : sc \in scope.schemas},
                 {}),
             scope.sql \o JsonbSql(scope.schemas, 1),
             "jsonb")

_get_field_index_from_jsonb(map, rs, bk, experiment_id) ==
    JsonbIndex(_scope_for_experiment(map, rs, bk, experiment_id), rs, bk, experiment_id)

\* a TTL test that still serves an entry exactly _cache_ttl seconds old
CacheFreshInclusive(t, cached_time) == t - cached_time <= _cache_ttl

\* (now - cached_time).total_seconds() < self._cache_ttl
CacheFresh(t, cached_time) == t - cached_time < _cache_ttl

\* the catalog result is kept when it counts a run or names a params or metrics field
CatalogUsable(result) ==
    result.run_count > 0 \/ result.params_fields # {} \/ result.metrics_fields # {}

AfterCatalogSql(sql, j) == [j EXCEPT !.sql = sql \o @]

AfterCatalog(c, rs, bk, experiment_id) ==
    IF CatalogUsable(c.result) THEN c
    ELSE AfterCatalogSql(c.sql, _get_field_index_from_jsonb(c.map, rs, bk, experiment_id))

\* the body of get_field_index past the cache test
ComputeIndex(map, rs, bk, cat, experiment_id) ==
    AfterCatalog(_get_field_index_from_catalog(map, rs, bk, cat, experiment_id), rs, bk,
                 experiment_id)

CachePut(cache, key, entry) ==
    [x \in (DOMAIN cache) \cup {key} |-> IF x = key THEN entry ELSE cache[x]]

IndexAnswer(cache, map, result, sql, path) ==
    [cache |-> cache, map |-> map, result |-> result, sql |-> sql, path |-> path]

StoreIndex(cache, t, key, c) ==
    IndexAnswer(CachePut(cache, key, [time |-> t, result |-> c.result]), c.map, c.result,
                c.sql, c.path)

\* get_field_index(filter) at time t; `key` is filter.experiment_id, None without filter
get_field_index(cache, map, rs, bk, cat, t, key) ==
    IF key \in DOMAIN cache /\ CacheFresh(t, cache[key].time)
    THEN IndexAnswer(cache, map, cache[key].result, <<>>, "cache")
    ELSE StoreIndex(cache, t, key, ComputeIndex(map, rs, bk, cat, key))

\* SELECT experiment_id, COUNT( * ), MAX(started_at) ... GROUP BY experiment_id
AllIds(rs, bk) == rs \cup {SweepBase + k : k \in 1..bk}

RunsOfExperiment(schemas, rs, bk, e) ==
    {id \in AllIds(rs, bk) : RunSchema(id) \in schemas /\ RunExperiment(id) = e}

Latest(ids) ==
    CHOOSE m \in {Row(id).started_at : id \in ids} : \A id \in ids : Row(id).started_at <= m

ExperimentRows(schemas, rs, bk) ==
    {[experiment_id |-> e,
      run_count |-> Cardinality(RunsOfExperiment(schemas, rs, bk, e)),
      latest_run |-> Latest(RunsOfExperiment(schemas, rs, bk, e))] :
       e \in {RunExperiment(id) : id \in {i \in AllIds(rs, bk) : RunSchema(i) \in schemas}}}

ExperimentsAnswer(ecache, map, result, sql) ==
    [ecache |-> ecache, map |-> map, result |-> result, sql |-> sql]

ListInScope(ecache, scope, rs, bk, t) ==
    IF scope.schemas = {} THEN ExperimentsAnswer(ecache, scope.map, {}, scope.sql)
    ELSE ExperimentsAnswer([time |-> t, result |-> ExperimentRows(scope.schemas, rs, bk)],
                           scope.map, ExperimentRows(scope.schemas, rs, bk),
                           scope.sql \o <<"group_experiments">>)

\* list_experiments() at time t
list_experiments(ecache, map, rs, bk, t) ==
    IF ecache # NoCache /\ CacheFresh(t, ecache.time)
    THEN ExperimentsAnswer(ecache, map, ecache.result, <<>>)
    ELSE ListInScope(ecache, _get_all_schemas(map, rs, bk), rs, bk, t)

\* a refresh that leaves the experiment listing cached
RefreshKeepsListing(cache, ecache, rs, bk) ==
    [cache |-> <<>>, ecache |-> ecache, map |-> _refresh_schema_cache(rs, bk),
     sql |-> DiscoverySql]

\* refresh() on the adapter whose caches are `cache` and `ecache`
refresh(cache, ecache, rs, bk) ==
    [cache |-> <<>>, ecache |-> NoCache, map |-> _refresh_schema_cache(rs, bk),
     sql |-> DiscoverySql]

(***************************************************************************)
(* The callers and the environment of the Field Index.  Callers poll        *)
(* get_field_index and list_experiments and call refresh; a writer adds     *)
(* runs, creates and populates the field_catalog tables; the clock          *)
(* advances.  `last` holds the call completed by the latest step, with the  *)
(* state it ran on and its answer.                                          *)
(***************************************************************************)
TickStep == 30
MaxTime == 90

IndexKeys == {None, "expA"}
CatalogSchemas == {"s1", "s2"}
PolledCalls == {"get_field_index", "list_experiments"}

\* no call completed in the latest step; `pending` are the kinds of call not made
\* since the latest refresh
NoStoreCall(pending) == [op |-> "none", pending |-> pending]

InitStore ==
    /\ runs = {} /\ bulk = 0
    /\ experiment_schemas = _refresh_schema_cache({}, 0)
    /\ last = NoStoreCall({})
    /\ sess = NoSession
    /\ ff = NoFilter
    /\ compiled = Pending
    /\ StoreIdle

Tick ==
    /\ now + TickStep <= MaxTime
    /\ now' = now + TickStep
    /\ last' = NoStoreCall(last.pending)
    /\ UNCHANGED <<callVars, runs, bulk, experiment_schemas, sess, ff, compiled, catalog,
                   _field_index_cache, _experiments_cache>>

\* the writer adds the next run
WriteRun ==
    /\ \E id \in (1..MaxRuns) \ runs :
          /\ \A j \in 1..(id - 1) : j \in runs
          /\ runs' = runs \cup {id}
    /\ last' = NoStoreCall(last.pending)
    /\ UNCHANGED <<callVars, bulk, experiment_schemas, sess, ff, compiled, storeVars>>

\* the writer creates the field_catalog table of a namespace, then populates it
WriteCatalog ==
    /\ \E sc \in CatalogSchemas :
          /\ catalog[sc] # "filled"
          /\ catalog' = [catalog EXCEPT
                           ![sc] = IF catalog[sc] = "absent" THEN "empty" ELSE "filled"]
    /\ last' = NoStoreCall(last.pending)
    /\ UNCHANGED <<callVars, runs, bulk, experiment_schemas, sess, ff, compiled,
                   _field_index_cache, _experiments_cache, now>>

\* a completed call: the state it ran on and its answer; `first` marks the first call
\* of its kind since the latest refresh
StoreCall(op, key, a) ==
    [op |-> op, key |-> key, at |-> now, db |-> runs, cat |-> catalog,
     pre_cache |-> _field_index_cache, answer |-> a,
     first |-> op \in last.pending, pending |-> last.pending \ {op}]

IndexCalled(key, a) ==
    /\ _field_index_cache' = a.cache
    /\ experiment_schemas' = a.map
    /\ last' = StoreCall("get_field_index", key, a)

CallGetFieldIndex ==
    /\ \E key \in IndexKeys :
          IndexCalled(key, get_field_index(_field_index_cache, experiment_schemas, runs, bulk,
                                           catalog, now, key))
    /\ UNCHANGED <<callVars, runs, bulk, sess, ff, compiled, catalog, _experiments_cache, now>>

ExperimentsListed(a) ==
    /\ _experiments_cache' = a.ecache
    /\ experiment_schemas' = a.map
    /\ last' = StoreCall("list_experiments", None, a)

CallListExperiments ==
    /\ ExperimentsListed(list_experiments(_experiments_cache, experiment_schemas, runs, bulk,
                                          now))
    /\ UNCHANGED <<callVars, runs, bulk, sess, ff, compiled, catalog, _field_index_cache, now>>

Refreshed(a) ==
    /\ _field_index_cache' = a.cache
    /\ _experiments_cache' = a.ecache
    /\ experiment_schemas' = a.map
    /\ last' = [StoreCall("refresh", None, a) EXCEPT !.pending = PolledCalls]

CallRefresh ==
    /\ Refreshed(refresh(_field_index_cache, _experiments_cache, runs, bulk))
    /\ UNCHANGED <<callVars, runs, bulk, sess, ff, compiled, catalog, now>>

\* SpecCache: the TTL caches under polling, on a database without field_catalog tables
NextCache ==
    \/ WriteRun
    \/ Tick
    \/ CallGetFieldIndex
    \/ CallListExperiments
    \/ CallRefresh

SpecCache == InitStore /\ [][NextCache]_vars

\* SpecIndex: the two paths of the field index while the catalogs appear, at one instant
NextIndex ==
    \/ WriteRun
    \/ WriteCatalog
    \/ CallGetFieldIndex
    \/ CallRefresh

SpecIndex == InitStore /\ [][NextIndex]_vars

IndexCall == last.op = "get_field_index"

\* the entry the call found under its key was less than _cache_ttl seconds old
FoundFresh ==
    /\ last.key \in DOMAIN last.pre_cache
    /\ last.at - last.pre_cache[last.key].time < 60

\* C7: a get_field_index call made less than 60 s after the timestamp of the entry
\* cached under its key returns that entry's FieldIndex without querying the
\* database; a call made 60 s or more after it, or with no entry under its key,
\* recomputes the index from the database and replaces the entry; entries under other
\* keys are neither served nor changed.
C7_IndexCache ==
    IndexCall =>
        /\ FoundFresh =>
              /\ last.answer.result = last.pre_cache[last.key].result
              /\ last.answer.sql = <<>>
              /\ last.answer.cache = last.pre_cache
        /\ ~FoundFresh =>
              /\ last.answer.sql # <<>>
              /\ last.answer.result =
                    ComputeIndex(last.answer.map, last.db, 0, last.cat, last.key).result
              /\ last.answer.cache[last.key] =
                    [time |-> last.at, result |-> last.answer.result]
        /\ DOMAIN last.answer.cache = (DOMAIN last.pre_cache) \cup {last.key}
        /\ \A k \in (DOMAIN last.pre_cache) \ {last.key} :
              last.answer.cache[k] = last.pre_cache[k]

\* an entry exactly 60 s old is recomputed to a different index while the entry of the
\* other key stays
C7_IndexCacheWitness ==
    /\ IndexCall /\ last.key = "expA"
    /\ "expA" \in DOMAIN last.pre_cache /\ None \in DOMAIN last.pre_cache
    /\ last.at - last.pre_cache["expA"].time = 60
    /\ last.answer.result # last.pre_cache["expA"].result
    /\ last.answer.cache[None] = last.pre_cache[None]
    /\ last.answer.cache["expA"].time = last.at

\* map is what a discovery on the database db finds
Discovered(map, db) ==
    /\ \A e \in DOMAIN map : e \in ExperimentsIn(db, 0, map[e])
    /\ \A sc \in Schemas : ExperimentsIn(db, 0, sc) \subseteq DOMAIN map

\* C8: when refresh() returns the field-index cache holds no entry, the
\* experiment-listing cache is empty and the tenant -> namespace map is the result of
\* a discovery; the next get_field_index and the next list_experiments query the
\* database.
C8_Refresh ==
    /\ last.op = "refresh" =>
          /\ _field_index_cache = <<>>
          /\ _experiments_cache = NoCache
          /\ Discovered(experiment_schemas, last.db)
    /\ last.op \in PolledCalls /\ last.first => last.answer.sql # <<>>

\* the first list_experiments after a refresh lists runs written before the refresh
C8_RefreshWitness ==
    /\ last.op = "list_experiments" /\ last.first
    /\ "get_field_index" \notin last.pending
    /\ last.db = 1..MaxRuns
    /\ CountIn(last.answer.sql, "group_experiments") = 1
    /\ Cardinality(last.answer.result) = 2

Range(f) == {f[x] : x \in DOMAIN f}

\* the namespaces a call for `key` reads, given the tenant -> namespace map
ScopeOf(key, map) ==
    IF Truthy(key) THEN (IF key \in DOMAIN map THEN {map[key]} ELSE {}) ELSE Range(map)

TrueRunCount(key, map, db) ==
    Cardinality({id \in db : /\ RunSchema(id) \in ScopeOf(key, map)
                             /\ (Truthy(key) => RunExperiment(id) = key)})

\* C9: the run_count of a FieldIndex that get_field_index computes equals the number
\* of rows in the runs tables of the namespaces in scope (of the tenant when one is
\* given), whichever path produced it and whichever namespaces have a field_catalog.
C9_RunCount ==
    IndexCall /\ last.answer.path # "cache" =>
        last.answer.result.run_count = TrueRunCount(last.key, last.answer.map, last.db)

\* C10: get_field_index uses the introspection path whenever no namespace in scope
\* has a field_catalog table or the catalog read returns no field rows.
C10_Fallback ==
    /\ IndexCall /\ last.answer.path # "cache"
    /\ \A sc \in ScopeOf(last.key, last.answer.map) : last.cat[sc] # "filled"
    => last.answer.path = "jsonb"

(***************************************************************************)
(* The connection pool and the request threads.  The request-serving layer  *)
(* runs adapter operations on several threads at once; each thread is at    *)
(* some point of one operation.  What is left of the operation is a         *)
(* sequence of instructions [i, a]: `acquire` and `release` enter and leave *)
(* a `with self._get_conn()` block, `exec` and `fill` are one cur.execute,  *)
(* the others are the reads, writes and branches between them.  A raised    *)
(* exception leaves every open `with` block on its way out.                 *)
(***************************************************************************)
max_size == 2           \* ConnectionPool(max_size=5), scaled to the number of callers
MaxCallers == 2

Callers == 1..MaxCallers

Instr(i, a) == [i |-> i, a |-> a]
Acq == Instr("acquire", "")
Rel == Instr("release", "")
Exe(sql) == Instr("exec", sql)
Label(l) == Instr("label", l)
IfEmptyGoto(l) == Instr("if_empty_goto", l)
Execs(sqls) == [k \in 1..Len(sqls) |-> Exe(sqls[k])]

\* _refresh_schema_cache: _discover_metalab_schemas in a connection of its own, the
\* map cleared, then one DISTINCT per namespace in a second connection
RefreshScript ==
    <<Acq, Exe("discover_schemas"), Rel, Instr("clear", ""), Acq>>
        \o [k \in 1..Len(SchemaOrder) |-> Instr("fill", SchemaOrder[k])]
        \o <<Rel>>

\* _scope_for_experiment(experiment_id)
ScopeScript(experiment_id) ==
    IF Truthy(experiment_id) THEN <<Instr("lookup", experiment_id)>>
    ELSE <<Instr("all", "")>>

\* query_runs(FilterSpec(experiment_id=...)) or query_runs(None)
QueryRunsScript(experiment_id) ==
    ScopeScript(experiment_id)
        \o <<IfEmptyGoto("query_runs"), Acq, Exe("count_runs, page"), Rel,
             Label("query_runs")>>

\* list_experiments()
ListExperimentsScript ==
    <<Instr("ecache_check", "list_experiments"), Instr("all", ""),
      IfEmptyGoto("list_experiments"), Acq, Exe("group_experiments"), Rel,
      Instr("ecache_put", ""), Label("list_experiments")>>

\* refresh()
RefreshOpScript == <<Instr("clear_caches", "")>> \o RefreshScript

\* get_field_index(filter): the catalog path inside try/except, the introspection
\* path when it left no result, both inside one `with self._get_conn()`
FieldIndexScript(key) ==
    <<Instr("cache_check", key), Acq, Instr("try", "")>>
        \o ScopeScript(key)
        \o <<Instr("catalog_sql", key), Instr("catalog_result", key), Instr("except", ""),
             Instr("jsonb_if_none", key), Instr("cache_put", key), Rel,
             Label("get_field_index")>>

\* _get_field_index_from_jsonb
JsonbScript(key) ==
    ScopeScript(key) \o <<Instr("jsonb_sql", key), Instr("jsonb_result", key)>>

\* one _search_*_native(cur, q, limit): _scope_all(), an empty group for an empty
\* scope, else its statements (one step: they follow each other on the thread's own
\* cursor)
CategoryScript(category, sql) ==
    <<Instr("all", ""), IfEmptyGoto(category), Exe(sql), Label(category)>>

\* search(q, limit): the experiments group from list_experiments(), then the five
\* SQL categories inside one `with self._get_conn()`
SearchScript ==
    ListExperimentsScript
        \o <<Acq>>
        \o CategoryScript("field_names", "field_catalog_hits, field_catalog_total")
        \o CategoryScript("runs", "run_ids_total, run_ids_hits")
        \o CategoryScript("fingerprints", "fingerprints_hits")
        \o CategoryScript("experiment_tags", "experiment_tags_hits")
        \o CategoryScript("run_tags", "run_tags_hits, run_tags_total")
        \o <<Rel>>

Operations == {"query_runs", "get_field_index", "list_experiments", "refresh", "search"}

Script(op, arg) ==
    CASE op = "query_runs" -> QueryRunsScript(arg)
      [] op = "get_field_index" -> FieldIndexScript(arg)
      [] op = "list_experiments" -> ListExperimentsScript
      [] op = "refresh" -> RefreshOpScript
      [] op = "search" -> SearchScript

PoolTenants == {None, "ghost"}

ArgsOf(op) == IF op \in {"query_runs", "get_field_index"} THEN PoolTenants ELSE {None}

IdleThread ==
    [op |-> "idle", arg |-> None, status |-> "idle", todo |-> <<>>, held |-> 0,
     in_try |-> FALSE, scope |-> {}, has_result |-> FALSE, result |-> EmptyIndex,
     rows |-> {}, faulted |-> FALSE, timed_out |-> FALSE, aborted |-> FALSE]

NewThread(op, arg) ==
    [IdleThread EXCEPT !.op = op, !.arg = arg, !.status = "running",
                       !.todo = Script(op, arg)]

\* the `with` blocks a raised exception leaves: releases less acquisitions among the
\* instructions it skips
Count(todo, i) == Cardinality({k \in 1..Len(todo) : todo[k].i = i})
Net(todo) == Count(todo, "release") - Count(todo, "acquire")

IndexOf(todo, i, a) ==
    CHOOSE k \in 1..Len(todo) :
        /\ todo[k].i = i /\ todo[k].a = a
        /\ \A j \in 1..(k - 1) : ~(todo[j].i = i /\ todo[j].a = a)

From(todo, k) == SubSeq(todo, k, Len(todo))

\* markers take no step of their own: a label is passed, `try` and `except` open and
\* close the try block
RECURSIVE Settle(_)
Settle(th) ==
    IF th.todo = <<>> THEN th
    ELSE IF th.todo[1].i = "label" THEN Settle([th EXCEPT !.todo = Tail(@)])
    ELSE IF th.todo[1].i = "try" THEN Settle([th EXCEPT !.todo = Tail(@), !.in_try = TRUE])
    ELSE IF th.todo[1].i = "except"
         THEN Settle([th EXCEPT !.todo = Tail(@), !.in_try = FALSE])
    ELSE th

Goto(th, l) == Settle([th EXCEPT !.todo = From(@, IndexOf(@, "label", l) + 1)])

Advance(th) == Settle([th EXCEPT !.todo = Tail(@)])

\* the thread once its operation is over: what it ran and how it ended
Ended(th, status) ==
    [IdleThread EXCEPT !.op = th.op, !.arg = th.arg, !.status = status,
                       !.faulted = th.faulted, !.timed_out = th.timed_out,
                       !.held = th.held]

\* an exception raised at the head instruction: inside the try block of
\* get_field_index it is caught by `except Exception: pass`, elsewhere it leaves the
\* operation
Caught(th, rest, k) ==
    Settle([th EXCEPT !.todo = From(rest, k + 1), !.held = @ - Net(SubSeq(rest, 1, k)),
                      !.in_try = FALSE])

Propagated(th, rest) == Ended([th EXCEPT !.held = @ - Net(rest)], "raised")

Unwound(th, rest) ==
    IF th.in_try THEN Caught(th, rest, IndexOf(rest, "except", ""))
    ELSE Propagated(th, rest)

\* a statement that fails on the connection of the operation's own block leaves its
\* transaction aborted (the pool's connections are not in autocommit mode)
Raised(th, timeout) ==
    Unwound([th EXCEPT !.faulted = TRUE, !.timed_out = @ \/ timeout,
                       !.aborted = @ \/ (~timeout /\ th.held = 1)], Tail(th.todo))

At(t, kinds) ==
    /\ callers[t].status = "running"
    /\ callers[t].todo # <<>>
    /\ callers[t].todo[1].i \in kinds

Becomes(t, th) == callers' = [callers EXCEPT ![t] = th]

dataVars == <<runs, bulk, last, sess, ff, compiled, catalog, now, request, response>>

\* the database the requests run on: two runs in two namespaces, the first with a
\* populated field_catalog
PoolDatabase == {1, 2}
PoolCatalog == [sc \in Schemas |-> IF sc = "s1" THEN "filled" ELSE "absent"]

\* the adapter after construction (the pool created, the map built once), no
\* request running
InitPool ==
    /\ runs = PoolDatabase /\ bulk = 0
    /\ catalog = PoolCatalog
    /\ experiment_schemas = _refresh_schema_cache(runs, 0)
    /\ last = NoCall /\ sess = NoSession /\ ff = NoFilter /\ compiled = Pending
    /\ _field_index_cache = <<>> /\ _experiments_cache = NoCache /\ now = 0
    /\ callers = [t \in Callers |-> IdleThread]
    /\ in_use = 0
    /\ request = NoRequest /\ response = NoResponse

\* a request thread enters the operation of the request it serves
Call(t) ==
    /\ callers[t].status = "idle"
    /\ \E op \in Operations : \E arg \in ArgsOf(op) : Becomes(t, NewThread(op, arg))
    /\ UNCHANGED <<in_use, experiment_schemas, _field_index_cache, _experiments_cache,
                   dataVars>>

\* self._pool.connection(): a connection is handed out while one is free
Acquire(t) ==
    /\ At(t, {"acquire"})
    /\ in_use < max_size
    /\ in_use' = in_use + 1
    /\ Becomes(t, [Advance(callers[t]) EXCEPT !.held = @ + 1])
    /\ UNCHANGED <<experiment_schemas, _field_index_cache, _experiments_cache, dataVars>>

Throw(t, timeout) ==
    /\ Becomes(t, Raised(callers[t], timeout))
    /\ in_use' = in_use - (callers[t].held - Raised(callers[t], timeout).held)

\* no connection came free within the pool's timeout: PoolTimeout
AcquireTimeout(t) ==
    /\ At(t, {"acquire"})
    /\ in_use = max_size
    /\ Throw(t, TRUE)
    /\ UNCHANGED <<experiment_schemas, _field_index_cache, _experiments_cache, dataVars>>

\* the end of a `with self._get_conn()` block
Release(t) ==
    /\ At(t, {"release"})
    /\ in_use' = in_use - 1
    /\ Becomes(t, [Advance(callers[t]) EXCEPT !.held = @ - 1,
                                              !.aborted = @ /\ callers[t].held > 1])
    /\ UNCHANGED <<experiment_schemas, _field_index_cache, _experiments_cache, dataVars>>

Filled(map, th) ==
    IF th.todo[1].i = "fill"
    THEN FillSchema(map, ExperimentsIn(runs, bulk, th.todo[1].a), th.todo[1].a)
    ELSE map

\* rows = cur.fetchall() of list_experiments: the rows are read when the statement
\* runs, the cache is written after the `with` block is left
Fetched(th) ==
    IF th.todo[1] = Exe("group_experiments")
    THEN [Advance(th) EXCEPT !.rows = ExperimentRows(th.scope, runs, bulk)]
    ELSE Advance(th)

\* cur.execute(...) succeeds; in an aborted transaction every statement is rejected
Execute(t) ==
    /\ At(t, {"exec", "fill"})
    /\ ~(callers[t].aborted /\ callers[t].held = 1)
    /\ experiment_schemas' = Filled(experiment_schemas, callers[t])
    /\ Becomes(t, Fetched(callers[t]))
    /\ UNCHANGED <<in_use, _field_index_cache, _experiments_cache, dataVars>>

\* cur.execute(...) raises
ExecuteFault(t) ==
    /\ At(t, {"exec", "fill"})
    /\ Throw(t, FALSE)
    /\ UNCHANGED <<experiment_schemas, _field_index_cache, _experiments_cache, dataVars>>

Prepend(th, script) == Settle([th EXCEPT !.todo = script \o Tail(@)])

Resolved1(map, th, i, a) ==
    CASE i = "lookup" ->
           Prepend(th, (IF a \notin DOMAIN map THEN RefreshScript ELSE <<>>)
                           \o <<Instr("get", a)>>)
      [] i = "all" ->
           Prepend(th, (IF DOMAIN map = {} THEN RefreshScript ELSE <<>>)
                           \o <<Instr("values", "")>>)
      [] i = "get" ->
           [Advance(th) EXCEPT !.scope = IF a \in DOMAIN map THEN {map[a]} ELSE {}]
      [] i = "values" ->
           [Advance(th) EXCEPT !.scope = {map[e] : e \in DOMAIN map}]
      [] i = "clear" -> Advance(th)

\* the steps of the Namespace Resolver between its statements
Resolve(t) ==
    /\ At(t, {"lookup", "all", "get", "values", "clear"})
    /\ Becomes(t, Resolved1(experiment_schemas, callers[t], callers[t].todo[1].i,
                            callers[t].todo[1].a))
    /\ experiment_schemas' = IF callers[t].todo[1].i = "clear" THEN <<>>
                             ELSE experiment_schemas
    /\ UNCHANGED <<in_use, _field_index_cache, _experiments_cache, dataVars>>

Branched(th, i, a) ==
    CASE i = "if_empty_goto" -> IF th.scope = {} THEN Goto(th, a) ELSE Advance(th)
      [] i = "cache_check" ->
           IF a \in DOMAIN _field_index_cache /\ CacheFresh(now, _field_index_cache[a].time)
           THEN Goto(th, "get_field_index") ELSE Advance(th)
      [] i = "ecache_check" ->
           IF _experiments_cache # NoCache /\ CacheFresh(now, _experiments_cache.time)
           THEN Goto(th, a) ELSE Advance(th)
      [] i = "jsonb_if_none" ->
           IF th.has_result THEN Advance(th) ELSE Prepend(th, JsonbScript(a))

\* the tests an operation makes between its statements
Branch(t) ==
    /\ At(t, {"if_empty_goto", "cache_check", "ecache_check", "jsonb_if_none"})
    /\ Becomes(t, Branched(callers[t], callers[t].todo[1].i, callers[t].todo[1].a))
    /\ UNCHANGED <<in_use, experiment_schemas, _field_index_cache, _experiments_cache,
                   dataVars>>

ScopeRec(schemas) == [map |-> experiment_schemas, schemas |-> schemas, sql |-> <<>>]

WithResult(th, result, usable) ==
    [Advance(th) EXCEPT !.result = result, !.has_result = usable]

Computed(th, i, a) ==
    CASE i = "catalog_sql" -> Prepend(th, Execs(CatalogSql(catalog, th.scope, 1)))
      [] i = "catalog_result" ->
           WithResult(th, CatalogIndex(ScopeRec(th.scope), runs, bulk, catalog, a).result,
                      CatalogUsable(CatalogIndex(ScopeRec(th.scope), runs, bulk, catalog,
                                                 a).result))
      [] i = "jsonb_sql" -> Prepend(th, Execs(JsonbSql(th.scope, 1)))
      [] i = "jsonb_result" ->
           WithResult(th, JsonbIndex(ScopeRec(th.scope), runs, bulk, a).result, TRUE)
      [] OTHER -> Advance(th)

\* what an operation computes from the rows it fetched, and its cache writes
Compute(t) ==
    /\ At(t, {"catalog_sql", "catalog_result", "jsonb_sql", "jsonb_result", "cache_put",
              "ecache_put", "clear_caches"})
    /\ Becomes(t, Computed(callers[t], callers[t].todo[1].i, callers[t].todo[1].a))
    /\ _field_index_cache' =
          CASE callers[t].todo[1].i = "cache_put" ->
                 CachePut(_field_index_cache, callers[t].todo[1].a,
                          [time |-> now, result |-> callers[t].result])
            [] callers[t].todo[1].i = "clear_caches" -> <<>>
            [] OTHER -> _field_index_cache
    /\ _experiments_cache' =
          CASE callers[t].todo[1].i = "ecache_put" ->
                 [time |-> now, result |-> callers[t].rows]
            [] callers[t].todo[1].i = "clear_caches" -> NoCache
            [] OTHER -> _experiments_cache
    /\ UNCHANGED <<in_use, experiment_schemas, dataVars>>

\* the operation returns to its caller
Return(t) ==
    /\ callers[t].status = "running"
    /\ callers[t].todo = <<>>
    /\ Becomes(t, Ended(callers[t], "returned"))
    /\ UNCHANGED <<in_use, experiment_schemas, _field_index_cache, _experiments_cache,
                   dataVars>>

Step(t) ==
    \/ Call(t)
    \/ Acquire(t)
    \/ AcquireTimeout(t)
    \/ Release(t)
    \/ Execute(t)
    \/ ExecuteFault(t)
    \/ Resolve(t)
    \/ Branch(t)
    \/ Compute(t)
    \/ Return(t)

NextPool == \E t \in Callers : Step(t)

SpecPool == InitPool /\ [][NextPool]_vars

\* C11: every operation holds at most one pooled connection at any moment and none
\* once it has returned or raised
C11_OneConnection ==
    \A t \in DOMAIN callers :
        /\ callers[t].held <= 1
        /\ callers[t].status \in {"returned", "raised"} => callers[t].held = 0

\* a thread inside an operation keeps running: it is scheduled, its statements
\* complete or fail, and a wait on the pool ends with a connection or with the timeout
Progress(t) ==
    \/ Acquire(t)
    \/ AcquireTimeout(t)
    \/ Release(t)
    \/ Execute(t)
    \/ ExecuteFault(t)
    \/ Resolve(t)
    \/ Branch(t)
    \/ Compute(t)
    \/ Return(t)

SpecPoolFair == SpecPool /\ \A t \in Callers : WF_vars(Progress(t))

Over(t) == callers[t].status \in {"returned", "raised"}

\* every started operation eventually returns or fails
EveryCallEnds == \A t \in Callers : (callers[t].status = "running") ~> Over(t)

\* an acquisition that timed out has failed its operation
TimeoutFailsCall == \A t \in DOMAIN callers : callers[t].timed_out => callers[t].status = "raised"

\* C12: with concurrent callers and a bounded pool every started operation eventually
\* returns or fails, and an acquisition that cannot be served within the connect
\* timeout fails its operation
C12_PoolTermination == EveryCallEnds /\ []TimeoutFailsCall

(***************************************************************************)
(* SpecRediscover: the namespace rediscovery run again and again on a       *)
(* database that a writer grows.  information_schema.tables yields the      *)
(* namespaces in an order of its own (`heap`); the statement sorts them.    *)
(* Tenant expA has runs in two namespaces once runs 1 and 4 are written.    *)
(***************************************************************************)
ResolverRuns == 1..(MaxRuns + 1)

RECURSIVE SortNames(_)
SortNames(names) ==
    IF names = {} THEN <<>>
    ELSE <<CHOOSE x \in names : \A y \in names \ {x} : TextLess(x, y)>>
             \o SortNames(names \ {CHOOSE x \in names : \A y \in names \ {x} : TextLess(x, y)})

\* a discovery that returns the namespaces in the order the catalog scan yields them
DiscoverUnordered(heap) == heap

\* _discover_metalab_schemas: SELECT DISTINCT table_schema ... ORDER BY table_schema
_discover_metalab_schemas(heap) == SortNames({heap[k] : k \in 1..Len(heap)})

RECURSIVE FillSchemas(_, _, _, _, _)
FillSchemas(map, schemas, rs, bk, k) ==
    IF k > Len(schemas) THEN map
    ELSE FillSchemas(FillSchema(map, ExperimentsIn(rs, bk, schemas[k]), schemas[k]),
                     schemas, rs, bk, k + 1)

\* self._experiment_schemas.clear()
Cleared(map) == <<>>

\* _refresh_schema_cache on the adapter whose map is `map`
Rediscovery(map, heap, rs, bk) ==
    FillSchemas(Cleared(map), _discover_metalab_schemas(heap), rs, bk, 1)

HeapOrders ==
    {h \in [1..Len(SchemaOrder) -> Schemas] : \A sc \in Schemas : \E k \in DOMAIN h : h[k] = sc}

\* no rediscovery since the data last changed
NoRediscovery == [op |-> "none", nth |-> 0, heap |-> SchemaOrder, prev_heap |-> SchemaOrder,
                  pre_map |-> <<>>]

InitRediscover ==
    /\ runs = {} /\ bulk = 0
    /\ experiment_schemas = _refresh_schema_cache({}, 0)
    /\ last = NoRediscovery
    /\ sess = NoSession /\ ff = NoFilter /\ compiled = Pending
    /\ StoreIdle

\* the writer adds a run
WriteAnyRun ==
    /\ \E id \in ResolverRuns \ runs : runs' = runs \cup {id}
    /\ last' = NoRediscovery
    /\ UNCHANGED <<bulk, experiment_schemas, sess, ff, compiled, storeVars, callVars>>

\* _refresh_schema_cache runs; `nth` counts the rediscoveries since the data changed
Rediscover ==
    /\ last.nth < 2
    /\ \E heap \in HeapOrders :
          /\ experiment_schemas' = Rediscovery(experiment_schemas, heap, runs, bulk)
          /\ last' = [op |-> "_refresh_schema_cache", nth |-> last.nth + 1, heap |-> heap,
                      prev_heap |-> last.heap, pre_map |-> experiment_schemas]
    /\ UNCHANGED <<runs, bulk, sess, ff, compiled, storeVars, callVars>>

NextRediscover == WriteAnyRun \/ Rediscover

SpecRediscover == InitRediscover /\ [][NextRediscover]_vars

\* C13: a rediscovery that follows another one with no change to the data in between
\* leaves the tenant->namespace map as the first one built it
C13_Idempotent ==
    (last.op = "_refresh_schema_cache" /\ last.nth = 2) =>
        experiment_schemas = last.pre_map

\* two rediscoveries in a row, the catalog scan in two different orders, with a tenant
\* that has runs in two namespaces
C13_IdempotentWitness ==
    /\ last.op = "_refresh_schema_cache" /\ last.nth = 2
    /\ last.heap # last.prev_heap
    /\ \E e \in DOMAIN experiment_schemas :
          Cardinality({sc \in Schemas : e \in ExperimentsIn(runs, bulk, sc)}) > 1
    /\ experiment_schemas = last.pre_map

(***************************************************************************)
(* Lookups by key: get_run, get_experiment_manifest, get_artifact_content   *)
(* and get_artifact_preview.  A lookup either returns a value or raises.    *)
(***************************************************************************)
\* record_json->'artifacts' of a run: run 1 stores a blob, run 2 points at a
\* file under the file root, run 3 has no artifacts, run 4 points at a blob
\* that artifact_blobs no longer holds
RunArtifacts(id) ==
    IF IsSweep(id) THEN <<>>
    ELSE CASE id % 4 = 1 -> <<[name |-> "model", uri |-> "pgblob://a1", format |-> "json"]>>
           [] id % 4 = 2 -> <<[name |-> "plot", uri |-> "plots/p.png", format |-> "png"]>>
           [] id % 4 = 3 -> <<>>
           [] OTHER -> <<[name |-> "model", uri |-> "pgblob://gone", format |-> "npz"]>>

\* SELECT content FROM <schema>.artifact_blobs WHERE artifact_id = %s
BlobRows(rs, schema, artifact_id) ==
    IF artifact_id = "a1" /\ 1 \in rs /\ schema = RunSchema(1) THEN <<[content |-> "bytes"]>> ELSE <<>>

\* the rows of <schema>.experiment_manifests: one submission per tenant
ManifestTimestamp == "20260101"
ManifestRows(rs, bk, schema, experiment_id, timestamp) ==
    IF experiment_id \in ExperimentsIn(rs, bk, schema)
       /\ (Truthy(timestamp) => timestamp = ManifestTimestamp)
    THEN <<[experiment_id |-> experiment_id, timestamp |-> ManifestTimestamp]>>
    ELSE <<>>

Returned(value, map) == [status |-> "returned", value |-> value, map |-> map]
RaisedError(exc, map) == [status |-> "raised", value |-> [exception |-> exc], map |-> map]

\* SELECT 1 FROM <schema>.runs WHERE run_id = %s LIMIT 1
RunIn(rs, bk, schema, run_id) ==
    /\ run_id \in rs \cup {SweepBase + k : k \in 1..bk}
    /\ RunSchema(run_id) = schema

\* _find_schema_for_run: [map, schema]
_find_schema_for_run(map, rs, bk, run_id) ==
    LET r == _get_all_schemas(map, rs, bk)
        holds == {s \in r.schemas : RunIn(rs, bk, s, run_id)}
    IN  [map |-> r.map,
         schema |-> IF holds = {} THEN None ELSE CHOOSE s \in holds : TRUE]

\* _scope_for_run: [map, schemas]
_scope_for_run(map, rs, bk, run_id) ==
    LET r == _find_schema_for_run(map, rs, bk, run_id)
    IN  [map |-> r.map, schemas |-> IF r.schema # None THEN {r.schema} ELSE {}]

\* scope.single_schema()
single_schema(schemas) == IF Cardinality(schemas) = 1 THEN CHOOSE s \in schemas : TRUE ELSE None

\* the record_json column of a row: the serialized RunRecord, as <<key, value>> pairs
RecordJson(row) ==
    <<(<<"run_id", VInt(row.run_id)>>), (<<"experiment_id", VStr(row.experiment_id)>>),
      (<<"status", VStr(row.status)>>), (<<"started_at", VInt(row.started_at)>>),
      (<<"finished_at", VInt(row.finished_at)>>), (<<"duration_ms", VInt(row.duration_ms)>>),
      (<<"metrics", row.metrics>>), (<<"artifacts", RunArtifacts(row.run_id)>>)>>

\* SELECT r.run_id, r.record_json, d.derived_json FROM <schema>.runs r LEFT JOIN ...
FullRow(row) ==
    [run_id |-> row.run_id, record_json |-> RecordJson(row),
     derived_json |-> IF row.has_derived THEN row.derived ELSE <<>>]

\* data.get("status", "success")
StatusOf(data) ==
    IF JsonGet(data, "status") = VNone THEN "success" ELSE JsonGet(data, "status").s

\* a conversion that hands on finished_at and duration_ms as stored
RowAsStored(row, derived_json) ==
    [run_id |-> JsonGet(row.record_json, "run_id").i,
     experiment_id |-> JsonGet(row.record_json, "experiment_id").s,
     status |-> StatusOf(row.record_json),
     started_at |-> JsonGet(row.record_json, "started_at").i,
     finished_at |-> JsonGet(row.record_json, "finished_at"),
     duration_ms |-> JsonGet(row.record_json, "duration_ms"),
     metrics |-> JsonGet(row.record_json, "metrics"),
     derived_metrics |-> derived_json,
     artifacts |-> JsonGet(row.record_json, "artifacts")]

\* _row_to_run_response(row, derived_json)
_row_to_run_response(row, derived_json) ==
    [run_id |-> JsonGet(row.record_json, "run_id").i,
     experiment_id |-> JsonGet(row.record_json, "experiment_id").s,
     status |-> StatusOf(row.record_json),
     started_at |-> JsonGet(row.record_json, "started_at").i,
     finished_at |-> IF StatusOf(row.record_json) = "running" THEN VNone
                     ELSE JsonGet(row.record_json, "finished_at"),
     duration_ms |-> IF StatusOf(row.record_json) = "running" THEN VNone
                     ELSE JsonGet(row.record_json, "duration_ms"),
     metrics |-> JsonGet(row.record_json, "metrics"),
     derived_metrics |-> derived_json,
     artifacts |-> JsonGet(row.record_json, "artifacts")]

get_run(map, rs, bk, run_id) ==
    LET scope == _scope_for_run(map, rs, bk, run_id)
    IN  IF scope.schemas = {} THEN Returned(VNone, scope.map)
        ELSE IF ~RunIn(rs, bk, single_schema(scope.schemas), run_id)
             THEN Returned(VNone, scope.map)
             ELSE Returned(_row_to_run_response(FullRow(Row(run_id)),
                                                FullRow(Row(run_id)).derived_json),
                           scope.map)

get_experiment_manifest(map, rs, bk, experiment_id, timestamp) ==
    LET scope == _scope_for_experiment(map, rs, bk, experiment_id)
        schema == single_schema(scope.schemas)
    IN  IF schema = None THEN Returned(VNone, scope.map)
        ELSE IF ManifestRows(rs, bk, schema, experiment_id, timestamp) = <<>>
             THEN Returned(VNone, scope.map)
             ELSE Returned(ManifestRows(rs, bk, schema, experiment_id, timestamp)[1],
                           scope.map)

\* _get_artifact_info: [map, info], info None or the artifact's descriptor
_get_artifact_info(map, rs, bk, run_id, artifact_name) ==
    LET scope == _scope_for_run(map, rs, bk, run_id)
        schema == single_schema(scope.schemas)
        artifacts == RunArtifacts(run_id)
        named == {k \in 1..Len(artifacts) : artifacts[k].name = artifact_name}
    IN  [map |-> scope.map,
         info |-> IF schema = None \/ named = {} THEN VNone
                  ELSE artifacts[CHOOSE k \in named : \A j \in named : k <= j]]

BlobPrefix == "pgblob://"

\* uri.replace("pgblob://", "") of a uri that starts with the prefix and
\* holds it once
BlobId(uri) == SubSeq(uri, Len(BlobPrefix) + 1, Len(uri))

\* the bytes of the artifact, None (VNone) when no blob row or no file is found
\* (file_exists: whether the path resolved from the uri exists)
ArtifactBytes(map, rs, bk, run_id, uri, file_exists) ==
    IF StartsWith(uri, BlobPrefix)
    THEN LET schema == single_schema(_scope_for_run(map, rs, bk, run_id).schemas)
         IN  IF schema # None /\ BlobRows(rs, schema, BlobId(uri)) # <<>>
             THEN BlobRows(rs, schema, BlobId(uri))[1] ELSE VNone
    ELSE IF file_exists THEN [content |-> "bytes"] ELSE VNone

\* raise FileNotFoundError(f"Artifact not found: {run_id}/{artifact_name}")
ArtifactNotFound(map) == RaisedError("FileNotFoundError", map)

get_artifact_content(map, rs, bk, run_id, artifact_name, file_exists) ==
    LET r == _get_artifact_info(map, rs, bk, run_id, artifact_name)
    IN  IF r.info = VNone THEN ArtifactNotFound(r.map)
        ELSE IF ArtifactBytes(r.map, rs, bk, run_id, r.info.uri, file_exists) = VNone
             THEN ArtifactNotFound(r.map)
             ELSE Returned([content |-> ArtifactBytes(r.map, rs, bk, run_id, r.info.uri,
                                                      file_exists).content,
                            format |-> r.info.format], r.map)

PreviewKind(format) ==
    CASE format = "json" -> "json"
      [] format = "npz" -> "numpy"
      [] format \in {"png", "jpg", "jpeg", "gif", "webp"} -> "image"
      [] format \in {"txt", "csv", "log"} -> "text"
      [] OTHER -> "file"

get_artifact_preview(map, rs, bk, run_id, artifact_name, file_exists) ==
    LET r == _get_artifact_info(map, rs, bk, run_id, artifact_name)
    IN  IF r.info = VNone THEN ArtifactNotFound(r.map)
        ELSE IF ArtifactBytes(r.map, rs, bk, run_id, r.info.uri, file_exists) = VNone
             THEN ArtifactNotFound(r.map)
             ELSE Returned([name |-> artifact_name, kind |-> PreviewKind(r.info.format),
                            format |-> r.info.format], r.map)

LookupRuns == 1..(MaxRuns + 1)
ArtifactNames == {"model", "plot", "missing"}
LookupTenants == {"expA", "expB", "ghost"}
Timestamps == {None, ManifestTimestamp, "19990101"}

InitLookup ==
    /\ runs \in SUBSET (1..MaxRuns)
    /\ bulk = 0
    /\ experiment_schemas \in {<<>>, _refresh_schema_cache(runs, bulk)}
    /\ last = NoCall
    /\ sess = NoSession
    /\ ff = NoFilter
    /\ compiled = Pending
    /\ StoreIdle

Answered(req, r) ==
    /\ request' = req
    /\ response' = [status |-> r.status, value |-> r.value]
    /\ experiment_schemas' = r.map
    /\ UNCHANGED <<runs, bulk, last, sess, ff, compiled, storeVars, callers, in_use>>

WriteLookupRun ==
    /\ \E id \in LookupRuns \ runs : runs' = runs \cup {id}
    /\ UNCHANGED <<bulk, experiment_schemas, last, sess, ff, compiled, storeVars, callVars>>

GetRun ==
    \E run_id \in LookupRuns :
        Answered([endpoint |-> "get_run", run_id |-> run_id],
                 get_run(experiment_schemas, runs, bulk, run_id))

GetExperimentManifest ==
    \E e \in LookupTenants, ts \in Timestamps :
        Answered([endpoint |-> "get_experiment_manifest", experiment_id |-> e,
                  timestamp |-> ts],
                 get_experiment_manifest(experiment_schemas, runs, bulk, e, ts))

GetArtifactContent ==
    \E run_id \in LookupRuns, name \in ArtifactNames, file_exists \in BOOLEAN :
        Answered([endpoint |-> "get_artifact_content", run_id |-> run_id,
                  artifact_name |-> name],
                 get_artifact_content(experiment_schemas, runs, bulk, run_id, name,
                                      file_exists))

GetArtifactPreview ==
    \E run_id \in LookupRuns, name \in ArtifactNames, file_exists \in BOOLEAN :
        Answered([endpoint |-> "get_artifact_preview", run_id |-> run_id,
                  artifact_name |-> name],
                 get_artifact_preview(experiment_schemas, runs, bulk, run_id, name,
                                      file_exists))

NextLookup ==
    \/ WriteLookupRun
    \/ GetRun
    \/ GetExperimentManifest
    \/ GetArtifactContent
    \/ GetArtifactPreview

SpecLookup == InitLookup /\ [][NextLookup]_vars

\* the request names something the database does not hold
UnknownTarget ==
    CASE request.endpoint = "get_run" -> request.run_id \notin runs
      [] request.endpoint = "get_experiment_manifest" ->
            \/ request.experiment_id \notin {RunExperiment(id) : id \in runs}
            \/ request.timestamp \notin {None, ManifestTimestamp}
      [] request.endpoint \in {"get_artifact_content", "get_artifact_preview"} ->
            \/ request.run_id \notin runs
            \/ \A k \in 1..Len(RunArtifacts(request.run_id)) :
                   RunArtifacts(request.run_id)[k].name # request.artifact_name
      [] OTHER -> FALSE

\* C14: a lookup of an unknown run, an unknown artifact, an unknown manifest
\* version or anything of an unknown tenant returns None and never raises.
C14_AbsentNeverRaises ==
    UnknownTarget => response.status = "returned" /\ response.value = VNone

(***************************************************************************)
(* Faults inside an operation (SpecPool): a statement that fails, a         *)
(* connection that is lost, an acquisition that times out                   *)
(***************************************************************************)
\* C15: a connection or statement fault during an operation fails that operation:
\* no operation returns a result after one of its statements or acquisitions failed
C15_FaultPropagates ==
    \A t \in DOMAIN callers : callers[t].status = "returned" => ~callers[t].faulted

(***************************************************************************)
(* Search Dispatcher: the SQL-native search of the Postgres adapter and the *)
(* generic search of the router.  A group is [category, hits, total]; a hit *)
(* is [label, sublabel].                                                     *)
(***************************************************************************)
UpperChars == "ABCDEFGHIJKLMNOPQRSTUVWXYZ"
LowerChars == "abcdefghijklmnopqrstuvwxyz"

\* str.lower() and the case folding of ILIKE, on ASCII
RECURSIVE Lower(_)
Lower(s) ==
    IF s = "" THEN ""
    ELSE (IF FindSub(UpperChars, CharAt(s, 1), 1) > 0
          THEN CharAt(LowerChars, FindSub(UpperChars, CharAt(s, 1), 1))
          ELSE CharAt(s, 1)) \o Lower(SubSeq(s, 2, Len(s)))

\* _matches(q, text): case-insensitive substring match
_matches(q, text) == q # "" /\ text # "" /\ FindSub(Lower(text), Lower(q), 1) > 0

\* text LIKE pattern: % matches any run of characters, _ any one character
RECURSIVE LikeMatch(_, _)
LikeMatch(text, pattern) ==
    IF pattern = "" THEN text = ""
    ELSE IF CharAt(pattern, 1) = "%"
         THEN \/ LikeMatch(text, SubSeq(pattern, 2, Len(pattern)))
              \/ text # "" /\ LikeMatch(SubSeq(text, 2, Len(text)), pattern)
    ELSE /\ text # ""
         /\ CharAt(pattern, 1) \in {"_", CharAt(text, 1)}
         /\ LikeMatch(SubSeq(text, 2, Len(text)), SubSeq(pattern, 2, Len(pattern)))

\* text ILIKE %s with the parameter f"%{q}%"
ILike(text, q) == LikeMatch(Lower(text), "%" \o Lower(q) \o "%")

SearchHit(label, sublabel) == [label |-> label, sublabel |-> sublabel]
SearchGroup(category, hits, total) == [category |-> category, hits |-> hits, total |-> total]

\* the first n elements: LIMIT n, and `if len(hits) < limit: hits.append(...)`
Take(seq, n) == SubSeq(seq, 1, Min(n, Len(seq)))

\* record_json->'tags' of a run
RunTags(id) ==
    IF IsSweep(id) THEN <<>>
    ELSE CASE id % 4 = 1 -> <<"base", "baseline">>
           [] id % 4 = 2 -> <<"sweep">>
           [] OTHER -> <<>>

\* manifest_json->'tags' of a tenant's manifest
ManifestTags(experiment_id) ==
    IF experiment_id = "expA" THEN <<"prod", "production">> ELSE <<>>

\* the fingerprint columns of a run
Fingerprints == <<"context_fingerprint", "params_fingerprint", "seed_fingerprint">>

RunIdText(id) == NatToStr(id)

\* the rows of a set in the order a strict total order puts them
Ordered(S, Before(_, _)) ==
    CHOOSE s \in [1..Cardinality(S) -> S] : \A i, j \in 1..Cardinality(S) :
        i < j => Before(s[i], s[j])

\* ORDER BY started_at DESC over runs (rows that tie come in run_id order)
NewestFirst(ids) ==
    Ordered(ids, LAMBDA a, b : \/ Row(a).started_at > Row(b).started_at
                               \/ Row(a).started_at = Row(b).started_at /\ a < b)

\* list_experiments' rows in list order: ORDER BY latest_run DESC
ExperimentList(rows) ==
    Ordered(rows, LAMBDA a, b : \/ a.latest_run > b.latest_run
                                \/ /\ a.latest_run = b.latest_run
                                   /\ TextLess(a.experiment_id, b.experiment_id))

\* the runs of the namespaces in scope
ScopedIds(schemas, rs, bk) == {id \in AllIds(rs, bk) : RunSchema(id) \in schemas}

RunHits(ids) == [k \in 1..Len(ids) |->
                    SearchHit(RunIdText(ids[k]), RunExperiment(ids[k]))]

\* _search_experiments_native over the (cached) experiment list
_search_experiments_native(experiments, q, limit) ==
    LET matching == SelectSeq(experiments,
                              LAMBDA e : FindSub(Lower(e.experiment_id), Lower(q), 1) > 0)
    IN  SearchGroup("experiments",
                    [k \in 1..Min(limit, Len(matching)) |->
                        SearchHit(matching[k].experiment_id,
                                  NatToStr(matching[k].run_count) \o " runs")],
                    Len(matching))

\* the rows of scope.table('field_catalog'): one per namespace and catalog row
\* (UNION ALL keeps the copies), <<schema, namespace, field_name, count>>
AllCatalogRows(cat, schemas) ==
    UNION {{<<sc, row[1], row[2], row[3]>> : row \in CatalogRows(cat, sc)} : sc \in schemas}

\* ORDER BY count DESC over the catalog rows (rows that tie come in field name,
\* namespace and schema order)
MostCountedFirst(rows) ==
    Ordered(rows, LAMBDA a, b :
        \/ a[4] > b[4]
        \/ a[4] = b[4] /\ TextLess(a[3], b[3])
        \/ a[4] = b[4] /\ a[3] = b[3] /\ TextLess(a[2], b[2])
        \/ a[4] = b[4] /\ a[3] = b[3] /\ a[2] = b[2] /\ TextLess(a[1], b[1]))

\* label=field_name, sublabel=f"{namespace} . {count} runs"
FieldHit(row) == SearchHit(row[3], row[2] \o " . " \o NatToStr(row[4]) \o " runs")

\* _search_field_catalog_native, for a scope whose namespaces all hold the table
_search_field_catalog_native(cat, schemas, q, limit) ==
    LET matching == {r \in AllCatalogRows(cat, schemas) : ILike(r[3], q)}
        rows == MostCountedFirst(matching)
    IN  IF schemas = {} THEN SearchGroup("field_names", <<>>, 0)
        ELSE SearchGroup("field_names",
                         [k \in 1..Min(limit, Len(rows)) |-> FieldHit(rows[k])],
                         Cardinality(matching))

\* _search_run_ids_native
_search_run_ids_native(schemas, rs, bk, q, limit) ==
    LET matching == {id \in ScopedIds(schemas, rs, bk) : ILike(RunIdText(id), q)}
    IN  IF schemas = {} THEN SearchGroup("runs", <<>>, 0)
        ELSE SearchGroup("runs", RunHits(Take(NewestFirst(matching), limit)),
                         Cardinality(matching))

\* a total that is the number of hits
HitCount(hits, limit) == Len(hits)

\* total = len(hits) + 1 if len(hits) >= limit else len(hits)
ApproximateTotal(hits, limit) == IF Len(hits) >= limit THEN Len(hits) + 1 ELSE Len(hits)

\* _search_fingerprints_native: the three columns OR'd in one statement
_search_fingerprints_native(schemas, rs, bk, q, limit) ==
    LET matching == {id \in ScopedIds(schemas, rs, bk) :
                        \E c \in 1..Len(Fingerprints) :
                            ILike(ColumnValue(Row(id), Fingerprints[c]).s, q)}
        hits == RunHits(Take(NewestFirst(matching), limit))
    IN  IF schemas = {} THEN SearchGroup("fingerprints", <<>>, 0)
        ELSE SearchGroup("fingerprints", hits, ApproximateTotal(hits, limit))

\* the tags of a sequence that match, in array order
MatchingTags(tags, q) == SelectSeq(tags, LAMBDA tag : ILike(tag, q))

\* _search_experiment_tags_native: DISTINCT ON (experiment_id) ... ORDER BY
\* experiment_id keeps one row per tenant
_search_experiment_tags_native(schemas, rs, bk, q, limit) ==
    LET tenants == {e \in UNION {ExperimentsIn(rs, bk, sc) : sc \in schemas} :
                        MatchingTags(ManifestTags(e), q) # <<>>}
        rows == Take(SortNames(tenants), limit)
        hits == [k \in 1..Len(rows) |->
                    SearchHit(rows[k], "tag: " \o MatchingTags(ManifestTags(rows[k]), q)[1])]
    IN  IF schemas = {} THEN SearchGroup("tags", <<>>, 0)
        ELSE SearchGroup("tags", hits, ApproximateTotal(hits, limit))

\* the rows of runs joined with their tags (LATERAL jsonb_array_elements_text):
\* one row per run and matching tag
RECURSIVE TagJoin(_, _, _)
TagJoin(ids, q, k) ==
    IF k > Len(ids) THEN <<>>
    ELSE [j \in 1..Len(MatchingTags(RunTags(ids[k]), q)) |-> ids[k]] \o TagJoin(ids, q, k + 1)

\* _search_run_tags_native: hits from the joined rows, total from
\* COUNT(DISTINCT r.run_id)
_search_run_tags_native(schemas, rs, bk, q, limit) ==
    LET matching == {id \in ScopedIds(schemas, rs, bk) : MatchingTags(RunTags(id), q) # <<>>}
    IN  IF schemas = {} THEN SearchGroup("run_tags", <<>>, 0)
        ELSE SearchGroup("run_tags",
                         RunHits(Take(TagJoin(NewestFirst(matching), q, 1), limit)),
                         Cardinality(matching))

\* return [g for g in groups if g.hits or g.total > 0]
DropEmpty(groups) == SelectSeq(groups, LAMBDA g : g.hits # <<>> \/ g.total > 0)

SearchAnswer(status, groups, map, ecache) ==
    [status |-> status, groups |-> groups, map |-> map, ecache |-> ecache]

NativeGroups(experiments, cat, schemas, rs, bk, q, limit) ==
    <<_search_experiments_native(experiments, q, limit),
      _search_field_catalog_native(cat, schemas, q, limit),
      _search_run_ids_native(schemas, rs, bk, q, limit),
      _search_fingerprints_native(schemas, rs, bk, q, limit),
      _search_experiment_tags_native(schemas, rs, bk, q, limit),
      _search_run_tags_native(schemas, rs, bk, q, limit)>>

\* the statement over scope.table('field_catalog') names a table that one of the
\* namespaces in scope does not have
CatalogMissing(cat, schemas) == \E sc \in schemas : cat[sc] = "absent"

SearchedNative(listed, scope, rs, bk, cat, q, limit) ==
    IF CatalogMissing(cat, scope.schemas)
    THEN SearchAnswer("raised", <<>>, scope.map, listed.ecache)
    ELSE SearchAnswer("returned",
                      DropEmpty(NativeGroups(ExperimentList(listed.result), cat,
                                             scope.schemas, rs, bk, q, limit)),
                      scope.map, listed.ecache)

SearchScoped(listed, rs, bk, cat, q, limit) ==
    SearchedNative(listed, _get_all_schemas(listed.map, rs, bk), rs, bk, cat, q, limit)

\* PostgresStoreAdapter.search(q, limit) at time t
search(ecache, map, rs, bk, cat, t, q, limit) ==
    SearchScoped(list_experiments(ecache, map, rs, bk, t), rs, bk, cat, q, limit)

(***************************************************************************)
(* The generic search of the router, over a store without native search.   *)
(* Each searcher keeps [hits, total, calls]: calls is the log of the store  *)
(* methods it has called.                                                    *)
(***************************************************************************)
NoHits == [hits |-> <<>>, total |-> 0, calls |-> <<>>]

Called(acc, method, arg) == [acc EXCEPT !.calls = Append(@, <<method, arg>>)]

\* a count that stops at the limit
CountedToLimit(acc, limit, hit) ==
    IF Len(acc.hits) < limit THEN [acc EXCEPT !.total = @ + 1, !.hits = Append(@, hit)]
    ELSE acc

\* total += 1; if len(hits) < limit: hits.append(hit)
Counted(acc, limit, hit) ==
    [acc EXCEPT !.total = @ + 1, !.hits = IF Len(@) < limit THEN Append(@, hit) ELSE @]

\* store.list_experiments()
StoreExperiments(rs, bk) == ExperimentList(ExperimentRows(Schemas, rs, bk))

\* store.get_experiment_manifest(exp_id, timestamp=None): tenant expB has not
\* submitted a manifest
StoreManifest(experiment_id) ==
    IF experiment_id = "expB" THEN VNone ELSE [tags |-> ManifestTags(experiment_id)]

\* store.query_runs(filter=FilterSpec(experiment_id=exp_id), limit=1, offset=0)
StoreFirstRun(rs, bk, experiment_id) ==
    Take(NewestFirst(RunsOfExperiment(Schemas, rs, bk, experiment_id)), 1)

RunsLabel(e) == NatToStr(e.run_count) \o " runs"

\* _search_experiments: the loop over the experiment list from index k on
RECURSIVE SearchExperimentsLoop(_, _, _, _, _)
SearchExperimentsLoop(experiments, q, limit, k, acc) ==
    IF k > Len(experiments) THEN acc
    ELSE SearchExperimentsLoop(experiments, q, limit, k + 1,
             IF _matches(q, experiments[k].experiment_id)
             THEN Counted(acc, limit, SearchHit(experiments[k].experiment_id,
                                                RunsLabel(experiments[k])))
             ELSE acc)

_search_experiments(rs, bk, q, limit) ==
    SearchExperimentsLoop(StoreExperiments(rs, bk), q, limit, 1,
                          Called(NoHits, "list_experiments", ""))

\* the names of a sequence that match, in order
MatchingNames(names, q) == SelectSeq(names, LAMBDA n : _matches(q, n))

\* the first element of a sequence of names that matches, "" if none
\* (for ...: if _matches(q, name): ...; break)
FirstMatch(names, q) ==
    IF MatchingNames(names, q) = <<>> THEN "" ELSE MatchingNames(names, q)[1]

\* the body of the loop of _search_experiment_tags, after the manifest is fetched
TagsOfManifest(acc, e, manifest, q, limit) ==
    IF manifest = VNone THEN acc
    ELSE IF FirstMatch(manifest.tags, q) = "" THEN acc
    ELSE Counted(acc, limit,
                 SearchHit(e.experiment_id,
                           "tag: " \o FirstMatch(manifest.tags, q) \o " · " \o RunsLabel(e)))

ArtifactNamesOf(id) == [k \in 1..Len(RunArtifacts(id)) |-> RunArtifacts(id)[k].name]

\* the body of the loop of _search_artifact_names, after the first run is fetched
ArtifactsOfRun(acc, e, first, q, limit) ==
    IF first = <<>> THEN acc
    ELSE IF FirstMatch(ArtifactNamesOf(first[1]), q) = "" THEN acc
    ELSE Counted(acc, limit,
                 SearchHit(e.experiment_id,
                           FirstMatch(ArtifactNamesOf(first[1]), q) \o " · " \o RunsLabel(e)))

\* _search_experiment_tags: the loop over the experiment list from index k on
RECURSIVE SearchExperimentTagsLoop(_, _, _, _, _)
SearchExperimentTagsLoop(experiments, q, limit, k, acc) ==
    IF k > Len(experiments) THEN acc
    ELSE SearchExperimentTagsLoop(experiments, q, limit, k + 1,
             TagsOfManifest(Called(acc, "get_experiment_manifest",
                                   experiments[k].experiment_id),
                            experiments[k], StoreManifest(experiments[k].experiment_id),
                            q, limit))

_search_experiment_tags(rs, bk, q, limit) ==
    SearchExperimentTagsLoop(StoreExperiments(rs, bk), q, limit, 1,
                             Called(NoHits, "list_experiments", ""))

\* _search_artifact_names: the loop over the experiment list from index k on
RECURSIVE SearchArtifactNamesLoop(_, _, _, _, _, _, _)
SearchArtifactNamesLoop(experiments, rs, bk, q, limit, k, acc) ==
    IF k > Len(experiments) THEN acc
    ELSE SearchArtifactNamesLoop(experiments, rs, bk, q, limit, k + 1,
             ArtifactsOfRun(Called(acc, "query_runs", experiments[k].experiment_id),
                            experiments[k],
                            StoreFirstRun(rs, bk, experiments[k].experiment_id), q, limit))

_search_artifact_names(rs, bk, q, limit) ==
    SearchArtifactNamesLoop(StoreExperiments(rs, bk), rs, bk, q, limit, 1,
                            Called(NoHits, "list_experiments", ""))

\* the params, metrics or derived object of a run
NamespaceObject(id, namespace) ==
    CASE namespace = "metrics" -> RunMetrics(id)
      [] namespace = "derived" -> Row(id).derived
      [] OTHER -> <<>>

\* index.<namespace>_fields of store.get_field_index(experiment_id): the field
\* names in dict order
StoreFieldNames(rs, bk, experiment_id, namespace) ==
    SortNames(UNION {KeysOf(NamespaceObject(id, namespace)) :
                        id \in {i \in AllIds(rs, bk) :
                                   experiment_id \in {None, RunExperiment(i)}}})

FieldValuesSeen(rs, bk, namespace, name) ==
    {JsonGet(NamespaceObject(id, namespace), name) : id \in AllIds(rs, bk)} \ {VNone}

\* the FieldInfo of a field: its string values, and the range of its numbers
StoreFieldInfo(rs, bk, namespace, name) ==
    LET seen == FieldValuesSeen(rs, bk, namespace, name)
        nums == {v.i : v \in {w \in seen : w.t = "int"}}
    IN  [values |-> SortNames({v.s : v \in {w \in seen : w.t = "str"}}),
         numeric |-> nums # {},
         min_value |-> IF nums = {} THEN 0 ELSE CHOOSE m \in nums : \A n \in nums : m <= n,
         max_value |-> IF nums = {} THEN 0 ELSE CHOOSE m \in nums : \A n \in nums : m >= n]

\* _search_field_names_cached: the loop over the experiment list from index k on
RECURSIVE SearchFieldNamesLoop(_, _, _, _, _, _, _, _)
SearchFieldNamesLoop(experiments, rs, bk, namespace, q, limit, k, acc) ==
    IF k > Len(experiments) THEN acc
    ELSE SearchFieldNamesLoop(experiments, rs, bk, namespace, q, limit, k + 1,
             IF FirstMatch(StoreFieldNames(rs, bk, experiments[k].experiment_id,
                                           namespace), q) = ""
             THEN acc
             ELSE Counted(acc, limit,
                          SearchHit(experiments[k].experiment_id,
                                    FirstMatch(StoreFieldNames(rs, bk,
                                                   experiments[k].experiment_id,
                                                   namespace), q))))

_search_field_names_cached(rs, bk, q, limit, namespace) ==
    SearchFieldNamesLoop(StoreExperiments(rs, bk), rs, bk, namespace, q, limit, 1,
                         Called(NoHits, "list_experiments", ""))

\* for run in runs: a run not seen yet becomes a hit, until the limit is reached
RECURSIVE AddRuns(_, _, _, _, _)
AddRuns(hits, ids, sublabel, limit, k) ==
    IF k > Len(ids) \/ Len(hits) >= limit THEN hits
    ELSE AddRuns(IF \E h \in 1..Len(hits) : hits[h].label = RunIdText(ids[k]) THEN hits
                 ELSE Append(hits, SearchHit(RunIdText(ids[k]),
                                             IF sublabel = "" THEN RunExperiment(ids[k])
                                             ELSE sublabel)),
                 ids, sublabel, limit, k + 1)

\* store.query_runs with one CONTAINS filter on a field of a namespace
RunsContaining(rs, bk, namespace, name, q) ==
    {id \in AllIds(rs, bk) :
        LET v == JsonText(JsonGet(NamespaceObject(id, namespace), name))
        IN  v.k = "text" /\ _matches(q, v.s)}

\* store.query_runs with one EQ filter on a field of a namespace
RunsEqual(rs, bk, namespace, name, n) ==
    {id \in AllIds(rs, bk) : JsonGet(NamespaceObject(id, namespace), name) = VInt(n)}

\* the body of the loop of _search_field_values for one field
FieldValueHits(hits, rs, bk, namespace, name, info, q, limit) ==
    IF info.values # <<>>
    THEN IF MatchingNames(info.values, q) = <<>> THEN hits
         ELSE AddRuns(hits, Take(NewestFirst(RunsContaining(rs, bk, namespace, name, q)),
                                 limit - Len(hits)),
                      name \o "=" \o MatchingNames(info.values, q)[1], limit, 1)
    ELSE IF IsIntLiteral(q) /\ info.numeric
            /\ info.min_value <= IntLiteralVal(q) /\ IntLiteralVal(q) <= info.max_value
         THEN AddRuns(hits, Take(NewestFirst(RunsEqual(rs, bk, namespace, name,
                                                       IntLiteralVal(q))),
                                 limit - Len(hits)),
                      name \o "=" \o q, limit, 1)
         ELSE hits

\* _search_field_values: the loop over fields.items() from index k on
RECURSIVE SearchFieldValuesLoop(_, _, _, _, _, _, _, _)
SearchFieldValuesLoop(names, rs, bk, namespace, q, limit, k, hits) ==
    IF k > Len(names) \/ Len(hits) >= limit THEN hits
    ELSE SearchFieldValuesLoop(names, rs, bk, namespace, q, limit, k + 1,
             FieldValueHits(hits, rs, bk, namespace, names[k],
                            StoreFieldInfo(rs, bk, namespace, names[k]), q, limit))

_search_field_values(rs, bk, q, limit, namespace, category) ==
    LET hits == SearchFieldValuesLoop(StoreFieldNames(rs, bk, None, namespace), rs, bk,
                                      namespace, q, limit, 1, <<>>)
    IN  SearchGroup(category, hits, IF Len(hits) < limit THEN Len(hits) ELSE Len(hits) + 1)

\* _search_run_ids: store.query_runs with CONTAINS on record.run_id
_search_run_ids(rs, bk, q, limit) ==
    LET matching == {id \in AllIds(rs, bk) : _matches(q, RunIdText(id))}
    IN  SearchGroup("runs", RunHits(Take(NewestFirst(matching), limit)),
                    Cardinality(matching))

\* _search_fingerprints: one query_runs per fingerprint field from index k on,
\* with limit * 2, the runs already seen skipped
RECURSIVE SearchFingerprintsLoop(_, _, _, _, _, _)
SearchFingerprintsLoop(rs, bk, q, limit, k, hits) ==
    IF k > Len(Fingerprints) \/ Len(hits) >= limit THEN hits
    ELSE SearchFingerprintsLoop(rs, bk, q, limit, k + 1,
             AddRuns(hits,
                     Take(NewestFirst({id \in AllIds(rs, bk) :
                              _matches(q, ColumnValue(Row(id), Fingerprints[k]).s)}),
                          limit * 2),
                     "", limit, 1))

_search_fingerprints(rs, bk, q, limit) ==
    LET hits == SearchFingerprintsLoop(rs, bk, q, limit, 1, <<>>)
    IN  SearchGroup("fingerprints", hits, ApproximateTotal(hits, limit))

\* _search_run_tags: store.query_runs with CONTAINS on record.tags
_search_run_tags(rs, bk, q, limit) ==
    LET matching == {id \in AllIds(rs, bk) : MatchingNames(RunTags(id), q) # <<>>}
    IN  SearchGroup("run_tags", RunHits(Take(NewestFirst(matching), limit)),
                    Cardinality(matching))

GroupOf(category, acc) == SearchGroup(category, acc.hits, acc.total)

\* the twelve groups of _generic_search before the empty ones are dropped
GenericGroups(rs, bk, q, limit) ==
    <<GroupOf("experiments", _search_experiments(rs, bk, q, limit)),
      GroupOf("param_names", _search_field_names_cached(rs, bk, q, limit, "params")),
      GroupOf("metric_names", _search_field_names_cached(rs, bk, q, limit, "metrics")),
      GroupOf("derived_names", _search_field_names_cached(rs, bk, q, limit, "derived")),
      _search_field_values(rs, bk, q, limit, "params", "param_values"),
      _search_field_values(rs, bk, q, limit, "metrics", "metric_values"),
      _search_field_values(rs, bk, q, limit, "derived", "derived_values"),
      _search_run_ids(rs, bk, q, limit),
      _search_fingerprints(rs, bk, q, limit),
      GroupOf("artifacts", _search_artifact_names(rs, bk, q, limit)),
      GroupOf("tags", _search_experiment_tags(rs, bk, q, limit)),
      _search_run_tags(rs, bk, q, limit)>>

_generic_search(rs, bk, q, limit) == DropEmpty(GenericGroups(rs, bk, q, limit))

(***************************************************************************)
(* SpecSearch: search requests served by the native and by the generic      *)
(* search on bounded databases                                               *)
(***************************************************************************)
MaxSearchLimit == 2

Queries == {"EXPA", "fp", "2", "base", "prod", "score", "model", "n/a", "_", "zzz"}
SearchLimits == 1..MaxSearchLimit
SearchRuns == 1..(MaxRuns + 1)
SearchCatalogs ==
    {[sc \in Schemas |-> "absent"], [sc \in Schemas |-> "filled"], PoolCatalog}

InitSearch ==
    /\ runs \in SUBSET SearchRuns
    /\ bulk = 0
    /\ catalog \in SearchCatalogs
    /\ experiment_schemas \in {<<>>, _refresh_schema_cache(runs, bulk)}
    /\ last = NoCall /\ sess = NoSession /\ ff = NoFilter /\ compiled = Pending
    /\ _field_index_cache = <<>> /\ _experiments_cache = NoCache /\ now = 0
    /\ CallersIdle

SearchRequest(path, q, limit) ==
    [endpoint |-> "search", path |-> path, q |-> q, limit |-> limit]

NativeAnswered(q, limit, r) ==
    /\ request' = SearchRequest("native", q, limit)
    /\ response' = [status |-> r.status, groups |-> r.groups]
    /\ experiment_schemas' = r.map
    /\ _experiments_cache' = r.ecache
    /\ UNCHANGED <<runs, bulk, last, sess, ff, compiled, catalog, _field_index_cache, now,
                   callers, in_use>>

\* GET /api/search served by store.search(q, limit)
SearchNative ==
    /\ request = NoRequest
    /\ \E q \in Queries, limit \in SearchLimits :
        NativeAnswered(q, limit, search(_experiments_cache, experiment_schemas, runs, bulk,
                                        catalog, now, q, limit))

\* GET /api/search served by _generic_search(store, q, limit)
SearchGeneric ==
    /\ request = NoRequest
    /\ \E q \in Queries, limit \in SearchLimits :
        /\ request' = SearchRequest("generic", q, limit)
        /\ response' = [status |-> "returned", groups |-> _generic_search(runs, bulk, q, limit)]
        /\ UNCHANGED <<runs, bulk, experiment_schemas, last, sess, ff, compiled, storeVars,
                       callers, in_use>>

\* the response is sent and the request is over
SendResponse ==
    /\ request # NoRequest
    /\ request' = NoRequest
    /\ response' = NoResponse
    /\ UNCHANGED <<runs, bulk, experiment_schemas, last, sess, ff, compiled, storeVars,
                   callers, in_use>>

NextSearch ==
    \/ SearchNative
    \/ SearchGeneric
    \/ SendResponse

SpecSearch == InitSearch /\ [][NextSearch]_vars

\* every text a search category looks at
SearchableTexts ==
    {RunExperiment(id) : id \in runs} \cup {RunIdText(id) : id \in runs}
        \cup {"fp" : id \in runs}
        \cup UNION {{RunTags(id)[k] : k \in 1..Len(RunTags(id))} : id \in runs}
        \cup UNION {{ManifestTags(RunExperiment(id))[k] :
                        k \in 1..Len(ManifestTags(RunExperiment(id)))} : id \in runs}
        \cup UNION {{ArtifactNamesOf(id)[k] : k \in 1..Len(ArtifactNamesOf(id))} : id \in runs}
        \cup UNION {KeysOf(RunMetrics(id)) \cup KeysOf(Row(id).derived) : id \in runs}
        \cup UNION {{JsonText(RunMetrics(id)[k][2]).s : k \in 1..Len(RunMetrics(id))}
                        \cup {JsonText(Row(id).derived[k][2]).s :
                                 k \in 1..Len(Row(id).derived)} : id \in runs}
        \cup {r[3] : r \in AllCatalogRows(catalog, Schemas)}

\* the query of the request matches nothing in any category
NothingMatches == \A text \in SearchableTexts : ~ILike(text, request.q)

\* C16: every group a search returns has a hit or a positive total, and a query that
\* matches nothing in every category returns an empty groups list
C16_NoEmptyGroups ==
    request.endpoint = "search" =>
        /\ \A k \in 1..Len(response.groups) :
               response.groups[k].hits # <<>> \/ response.groups[k].total > 0
        /\ NothingMatches => response.status = "returned" /\ response.groups = <<>>

(***************************************************************************)
(* SpecSearchers: the per-experiment generic searchers called one at a      *)
(* time, with the log of the store methods each one calls                   *)
(***************************************************************************)
Searchers == {"_search_experiments", "_search_experiment_tags", "_search_artifact_names"}
SearcherQueries == {"exp", "EXPA", "o", "model", "prod", "zzz"}
SearcherLimits == 0..MaxSearchLimit

RunSearcher(name, rs, bk, q, limit) ==
    CASE name = "_search_experiments" -> _search_experiments(rs, bk, q, limit)
      [] name = "_search_experiment_tags" -> _search_experiment_tags(rs, bk, q, limit)
      [] name = "_search_artifact_names" -> _search_artifact_names(rs, bk, q, limit)

InitSearchers ==
    /\ runs \in SUBSET SearchRuns
    /\ bulk = 0
    /\ experiment_schemas = <<>>
    /\ last = NoCall /\ sess = NoSession /\ ff = NoFilter /\ compiled = Pending
    /\ StoreIdle

\* one searcher is called on the store
CallSearcher ==
    /\ request = NoRequest
    /\ \E name \in Searchers, q \in SearcherQueries, limit \in SearcherLimits :
        /\ request' = [endpoint |-> name, q |-> q, limit |-> limit]
        /\ response' = [status |-> "returned",
                        hits |-> RunSearcher(name, runs, bulk, q, limit).hits,
                        total |-> RunSearcher(name, runs, bulk, q, limit).total,
                        calls |-> RunSearcher(name, runs, bulk, q, limit).calls]
    /\ UNCHANGED <<runs, bulk, experiment_schemas, last, sess, ff, compiled, storeVars,
                   callers, in_use>>

NextSearchers ==
    \/ CallSearcher
    \/ SendResponse

SpecSearchers == InitSearchers /\ [][NextSearchers]_vars

\* the store method a searcher calls for each experiment, "" if none
PerExperimentCall(name) ==
    CASE name = "_search_experiment_tags" -> "get_experiment_manifest"
      [] name = "_search_artifact_names" -> "query_runs"
      [] OTHER -> ""

\* whether the searcher counts the experiment for the query
ExperimentMatches(name, e, q) ==
    CASE name = "_search_experiments" -> _matches(q, e)
      [] name = "_search_experiment_tags" ->
            /\ StoreManifest(e) # VNone
            /\ \E k \in 1..Len(ManifestTags(e)) : _matches(q, ManifestTags(e)[k])
      [] name = "_search_artifact_names" ->
            /\ StoreFirstRun(runs, bulk, e) # <<>>
            /\ \E k \in 1..Len(RunArtifacts(StoreFirstRun(runs, bulk, e)[1])) :
                   _matches(q, RunArtifacts(StoreFirstRun(runs, bulk, e)[1])[k].name)

\* the ids of the experiment list that match, in list order
MatchingExperiments(name, q) ==
    SelectSeq([k \in 1..Len(StoreExperiments(runs, bulk)) |->
                  StoreExperiments(runs, bulk)[k].experiment_id],
              LAMBDA e : ExperimentMatches(name, e, q))

CallsOf(calls, method, arg) ==
    Cardinality({k \in 1..Len(calls) : calls[k] = <<method, arg>>})

\* C17: a generic searcher calls list_experiments once and its per-experiment store
\* method once per experiment whatever the limit; total is the number of matching
\* experiments and the hits are the first min(limit, total) of them in list order
C17_SinglePass ==
    request.endpoint \in Searchers =>
        /\ CallsOf(response.calls, "list_experiments", "") = 1
        /\ Len(response.calls) =
              1 + (IF PerExperimentCall(request.endpoint) = "" THEN 0
                   ELSE Len(StoreExperiments(runs, bulk)))
        /\ PerExperimentCall(request.endpoint) # "" =>
              \A k \in 1..Len(StoreExperiments(runs, bulk)) :
                  CallsOf(response.calls, PerExperimentCall(request.endpoint),
                          StoreExperiments(runs, bulk)[k].experiment_id) = 1
        /\ response.total = Len(MatchingExperiments(request.endpoint, request.q))
        /\ [k \in 1..Len(response.hits) |-> response.hits[k].label]
              = Take(MatchingExperiments(request.endpoint, request.q), request.limit)

\* a searcher that asks the store once per experiment found two matches with a limit
\* of one
C17_SinglePassWitness ==
    /\ request.endpoint = "_search_artifact_names"
    /\ request.limit = 1
    /\ response.total = 2
    /\ Len(response.hits) = 1
    /\ Len(response.calls) = 3

(***************************************************************************)
(* Histogram Engine: POST /api/histogram, the in-memory binning of the      *)
(* router over the runs query_runs returns.  Bin edges are exact fractions  *)
(* [num, den].                                                               *)
(***************************************************************************)
\* getattr(run.record, key, None)
RecordAttr(run, key) ==
    CASE key = "run_id" -> VStr(NatToStr(run.run_id))
      [] key = "experiment_id" -> VStr(run.experiment_id)
      [] key = "status" -> VStr(run.status)
      [] key = "duration_ms" -> run.duration_ms
      [] key \in {"started_at", "finished_at"} -> [t |-> "datetime"]
      [] OTHER -> VNone

\* the lookup of get_field_value once the path is split into namespace and key
FieldOf(run, parts) ==
    IF Len(parts) # 2 THEN VNone
    ELSE CASE parts[1] = "record" -> RecordAttr(run, parts[2])
           [] parts[1] = "params" -> VNone
           [] parts[1] = "metrics" -> JsonGet(run.metrics, parts[2])
           [] parts[1] = "derived" -> JsonGet(run.derived_metrics, parts[2])
           [] OTHER -> VNone

\* get_field_value(run, field_path)
get_field_value(run, field_path) == FieldOf(run, SplitDot(field_path))

\* val is not None and float(val) does not raise
IsNumericValue(val) == val # VNone /\ PyFloatRaises(val) = ""

\* the runs whose field value converts, in the order query_runs returned them
NumericRuns(page, field) ==
    SelectSeq(page, LAMBDA run : IsNumericValue(get_field_value(run, field)))

FloatOf(run, field) == PyFloat(get_field_value(run, field))

MinOf(values) == CHOOSE m \in {values[k] : k \in 1..Len(values)} :
                    \A k \in 1..Len(values) : m <= values[k]
MaxOf(values) == CHOOSE m \in {values[k] : k \in 1..Len(values)} :
                    \A k \in 1..Len(values) : m >= values[k]

Fraction(num, den) == [num |-> num, den |-> den]

\* numpy.histogram's range, in halves: (min, max), widened by 0.5 on each side when
\* all values are equal
RangeLow2(values) ==
    IF MinOf(values) = MaxOf(values) THEN 2 * MinOf(values) - 1 ELSE 2 * MinOf(values)
RangeHigh2(values) ==
    IF MinOf(values) = MaxOf(values) THEN 2 * MaxOf(values) + 1 ELSE 2 * MaxOf(values)

\* numpy.linspace(low, high, n + 1)[k], low and high in halves
BinEdge(low2, high2, n, k) == Fraction(n * low2 + k * (high2 - low2), 2 * n)

\* a binning whose last bin is half-open like the others
BinIndexHalfOpen(v, low2, high2, n) == ((2 * v - low2) * n) \div (high2 - low2)

\* the bin numpy.histogram counts v in: equal-width bins, the last one closed
BinIndex(v, low2, high2, n) ==
    IF 2 * v = high2 THEN n - 1 ELSE ((2 * v - low2) * n) \div (high2 - low2)

\* the counts and the edges of n equal-width bins over the range [low2/2, high2/2]
BinsOver(values, low2, high2, n) ==
    [counts |-> [b \in 1..n |->
                    Cardinality({k \in 1..Len(values) :
                        BinIndex(values[k], low2, high2, n) = b - 1})],
     bin_edges |-> [k \in 1..(n + 1) |-> BinEdge(low2, high2, n, k - 1)]]

\* numpy.histogram(values, bins=n): [counts, bin_edges]
np_histogram(values, n) == BinsOver(values, RangeLow2(values), RangeHigh2(values), n)

\* numpy.digitize([v], edges)[0]: the number of edges that are <= v
np_digitize(v, edges) ==
    Cardinality({k \in 1..Len(edges) : edges[k].num <= v * edges[k].den})

\* bin_idx = max(0, min(bin_idx - 1, len(counts) - 1))
ClampBin(bin_idx, n) ==
    IF Min(bin_idx - 1, n - 1) < 0 THEN 0 ELSE Min(bin_idx - 1, n - 1)

\* run_ids_per_bin: the run ids of each bin, in the order of the runs
RunIdsPerBin(numeric, values, edges, n) ==
    [b \in 1..n |->
        LET members == SelectSeq([k \in 1..Len(values) |-> k],
                           LAMBDA k : ClampBin(np_digitize(values[k],
                                                           SubSeq(edges, 1, Len(edges) - 1)),
                                               n) = b - 1)
        IN  [j \in 1..Len(members) |-> numeric[members[j]].run_id]]

HistogramResponse(bins, counts, total, run_ids_per_bin) ==
    [status |-> "returned", bins |-> bins, counts |-> counts, total |-> total,
     run_ids_per_bin |-> run_ids_per_bin]

\* the empty histogram
EmptyHistogram == HistogramResponse(<<Fraction(0, 1), Fraction(1, 1)>>, <<0>>, 0, <<(<<>>)>>)

Binned(numeric, values, h, n) ==
    HistogramResponse(h.bin_edges, h.counts, Len(values),
                      RunIdsPerBin(numeric, values, h.bin_edges, n))

\* numpy.histogram raises ValueError when the range (min, max) of the values is not
\* finite, before it bins anything
HistogramOf(numeric, floats, n) ==
    IF floats = <<>> THEN EmptyHistogram
    ELSE IF \E k \in 1..Len(floats) : floats[k] = VNonFinite
         THEN [status |-> "raised", exception |-> "ValueError"]
         ELSE Binned(numeric, [k \in 1..Len(floats) |-> floats[k].f],
                     np_histogram([k \in 1..Len(floats) |-> floats[k].f], n), n)

HistogramOfRuns(numeric, field, n) ==
    HistogramOf(numeric, [k \in 1..Len(numeric) |-> FloatOf(numeric[k], field)], n)

\* histogram(request, store) on what store.query_runs returned
histogram(r, field, bin_count) ==
    IF r.raises # "" THEN [status |-> "raised", exception |-> r.raises]
    ELSE HistogramOfRuns(NumericRuns(r.runs, field), field, bin_count)

(***************************************************************************)
(* SpecHistogram: histogram requests on bounded databases                   *)
(***************************************************************************)
MaxBins == 3
SweepWith == {{1}}           \* the rows beside the batch sweep when it is present
SweepPart == 101             \* rows of a batch sweep that is under way
HistogramRunLimit == 100000

HistogramFields ==
    {"metrics.score", "derived.x", "record.duration_ms", "record.status",
     "record.started_at", "metrics.loss", "score"}
HistogramFilters ==
    {FilterNone,
     FilterSpec("expA", <<>>, VNone, VNone, <<>>),
     FilterSpec("ghost", <<>>, VNone, VNone, <<>>),
     FilterSpec(None, <<"failed">>, VNone, VNone, <<>>)}

InitHistogram ==
    /\ \/ runs \in SUBSET SearchRuns /\ bulk = 0
       \/ runs \in SweepWith /\ bulk \in {SweepPart, SweepSize}
    /\ experiment_schemas = _refresh_schema_cache(runs, bulk)
    /\ last = NoCall /\ sess = NoSession /\ ff = NoFilter /\ compiled = Pending
    /\ StoreIdle

HistogramAnswered(filter, field, bin_count, r) ==
    /\ request' = [endpoint |-> "histogram", filter |-> filter, field |-> field,
                   bin_count |-> bin_count]
    /\ response' = histogram(r, field, bin_count)
    /\ experiment_schemas' = r.map
    /\ UNCHANGED <<runs, bulk, last, sess, ff, compiled, storeVars, callers, in_use>>

\* POST /api/histogram
Histogram ==
    /\ request = NoRequest
    /\ \E filter \in HistogramFilters, field \in HistogramFields, bin_count \in 1..MaxBins,
          scan \in Scans :
          HistogramAnswered(filter, field, bin_count,
                            query_runs(experiment_schemas, runs, bulk, filter, None, "desc",
                                       HistogramRunLimit, 0, scan))

NextHistogram ==
    \/ Histogram
    \/ SendResponse

SpecHistogram == InitHistogram /\ [][NextHistogram]_vars

RECURSIVE SumSeq(_)
SumSeq(s) == IF s = <<>> THEN 0 ELSE Head(s) + SumSeq(Tail(s))

HistogramReturned == request.endpoint = "histogram" /\ response.status = "returned"

\* some run the query returned holds a nan or an infinity in the requested field
NonFiniteValue ==
    /\ request.endpoint = "histogram"
    /\ \E scan \in Scans :
          LET r == query_runs(experiment_schemas, runs, bulk, request.filter, None, "desc",
                              HistogramRunLimit, 0, scan)
          IN  \E k \in 1..Len(r.runs) :
                 /\ IsNumericValue(get_field_value(r.runs[k], request.field))
                 /\ PyFloat(get_field_value(r.runs[k], request.field)) = VNonFinite

\* C18: every histogram request is answered with counts that add up to total and with
\* bin_count + 1 bin edges (the single bin [0, 1] of a histogram without values set
\* aside)
C18_Edges ==
    request.endpoint = "histogram" =>
        /\ response.status = "returned"
        /\ SumSeq(response.counts) = response.total
        /\ response.total > 0 => Len(response.bins) = request.bin_count + 1

\* C18 word for word: the same, whether or not any row matches
C18_EdgesAlways ==
    request.endpoint = "histogram" =>
        /\ response.status = "returned"
        /\ SumSeq(response.counts) = response.total
        /\ Len(response.bins) = request.bin_count + 1

\* what the router does: it raises ValueError exactly when a value is not finite;
\* otherwise the counts add up to total, with bin_count + 1 edges and bin_count counts
\* when some value was found and the single bin [0, 1] with count 0 when none was
HistogramContract ==
    request.endpoint = "histogram" =>
        /\ response.status = "raised" <=> NonFiniteValue
        /\ response.status = "raised" => response.exception = "ValueError"
        /\ response.status = "returned" =>
              /\ SumSeq(response.counts) = response.total
              /\ response.total > 0 =>
                    /\ Len(response.bins) = request.bin_count + 1
                    /\ Len(response.counts) = request.bin_count
              /\ response.total = 0 =>
                    /\ response.bins = <<Fraction(0, 1), Fraction(1, 1)>>
                    /\ response.counts = <<0>>

\* three bins over values that fall in the first and the last of them
ThreeBinsFilled ==
    /\ HistogramReturned
    /\ request.bin_count = 3
    /\ response.total >= 2
    /\ response.counts[1] > 0
    /\ response.counts[3] > 0

(***************************************************************************)
(* Aggregation Engine: POST /api/aggregate, compute_aggregate over the runs *)
(* query_runs returns.  Aggregates are exact fractions [num, den].          *)
(***************************************************************************)
\* x_val is not None and y_val is not None and float(y_val) does not raise
UsableRun(run, x_field, y_field) ==
    /\ get_field_value(run, x_field) # VNone
    /\ IsNumericValue(get_field_value(run, y_field))

\* _make_group_key(run, group_by)
_make_group_key(run, group_by) ==
    JoinStr(" | ", [k \in 1..Len(group_by) |->
                       IF get_field_value(run, group_by[k]) = VNone THEN ""
                       ELSE PyStr(get_field_value(run, group_by[k]))])

GroupKey(run, group_by) ==
    IF group_by # <<>> THEN _make_group_key(run, group_by) ELSE "all"

IsNumber(x) == x.t \in {"int", "float", "bool"}
NumberOf(x) == CASE x.t = "int" -> x.i
                 [] x.t = "float" -> x.f
                 [] x.t = "bool" -> IF x.b THEN 1 ELSE 0

\* _sort_key(a) < _sort_key(b): numbers first by value, then the rest by their str()
SortKeyBefore(a, b) ==
    IF IsNumber(a) /\ IsNumber(b) THEN NumberOf(a) < NumberOf(b)
    ELSE IF IsNumber(a) THEN TRUE
    ELSE IF IsNumber(b) THEN FALSE
    ELSE TextLess(PyStr(a), PyStr(b))

ValuesIn(values) == {values[k] : k \in 1..Len(values)}
Occurrences(values, v) == Cardinality({k \in 1..Len(values) : values[k] = v})

RECURSIVE WeightedSum(_, _)
WeightedSum(values, S) ==
    IF S = {} THEN 0
    ELSE LET v == CHOOSE w \in S : TRUE
         IN  v * Occurrences(values, v) + WeightedSum(values, S \ {v})

\* sum(values)
SumOf(values) == WeightedSum(values, ValuesIn(values))

\* sorted(values)[k - 1]
SortedAt(values, k) ==
    CHOOSE v \in ValuesIn(values) :
        /\ Cardinality({i \in 1..Len(values) : values[i] < v}) < k
        /\ k <= Cardinality({i \in 1..Len(values) : values[i] <= v})

\* _compute_agg(values, agg_fn)
_compute_agg(values, agg_fn) ==
    IF values = <<>> THEN Fraction(0, 1)
    ELSE CASE agg_fn = "mean" -> Fraction(SumOf(values), Len(values))
           [] agg_fn = "median" ->
                 IF Len(values) % 2 = 1
                 THEN Fraction(SortedAt(values, (Len(values) \div 2) + 1), 1)
                 ELSE Fraction(SortedAt(values, Len(values) \div 2)
                                   + SortedAt(values, (Len(values) \div 2) + 1), 2)
           [] agg_fn = "min" -> Fraction(MinOf(values), 1)
           [] agg_fn = "max" -> Fraction(MaxOf(values), 1)
           [] agg_fn = "count" -> Fraction(Len(values), 1)
           [] agg_fn = "sum" -> Fraction(SumOf(values), 1)
           [] OTHER -> Fraction(SumOf(values), Len(values))

\* t_table of _t_value_95, in hundredths
t_table ==
    (1 :> 1271) @@ (2 :> 430) @@ (3 :> 318) @@ (4 :> 278) @@ (5 :> 257) @@ (6 :> 245)
        @@ (7 :> 236) @@ (8 :> 231) @@ (9 :> 226) @@ (10 :> 223) @@ (15 :> 213)
        @@ (20 :> 209) @@ (25 :> 206) @@ (30 :> 204)

\* a lookup that falls back on the large-sample value for every df the table lacks
TableOrLargeSample(df) == IF df \in DOMAIN t_table THEN t_table[df] ELSE 196

\* _t_value_95(df), in hundredths: the entry of df, 1.96 above the table, else the
\* entry of the first key in ascending order that is >= df
_t_value_95(df) ==
    IF df \in DOMAIN t_table THEN t_table[df]
    ELSE IF df > 30 THEN 196
    ELSE IF \E k \in DOMAIN t_table : k >= df
         THEN t_table[CHOOSE k \in DOMAIN t_table :
                         k >= df /\ \A j \in DOMAIN t_table : j >= df => k <= j]
         ELSE 196

\* sum((x - mean) ** 2 for x in values), times n * n
RECURSIVE SquaredDeviations(_, _, _)
SquaredDeviations(values, S, total) ==
    IF S = {} THEN 0
    ELSE LET v == CHOOSE w \in S : TRUE
         IN  Occurrences(values, v) * (Len(values) * v - total) * (Len(values) * v - total)
                 + SquaredDeviations(values, S \ {v}, total)

\* variance = sum((x - mean) ** 2 for x in values) / (n - 1)
SampleVariance(values) ==
    Fraction(SquaredDeviations(values, ValuesIn(values), SumOf(values)),
             Len(values) * Len(values) * (Len(values) - 1))

NoBounds == [given |-> FALSE]

\* (center - margin, center + margin) with margin = t * sqrt(variance) / sqrt(over);
\* t in hundredths
Bounds(center, t, variance, over) ==
    [given |-> TRUE, center |-> center, t |-> t, variance |-> variance, over |-> over]

\* _compute_error_bounds(values, center, error_bars)
_compute_error_bounds(values, center, error_bars) ==
    IF error_bars = "none" \/ Len(values) < 2 THEN NoBounds
    ELSE CASE error_bars = "std" -> Bounds(center, 100, SampleVariance(values), 1)
           [] error_bars = "sem" -> Bounds(center, 100, SampleVariance(values), Len(values))
           [] error_bars = "ci95" ->
                 Bounds(center,
                        IF Len(values) > 30 THEN 196 ELSE _t_value_95(Len(values) - 1),
                        SampleVariance(values), Len(values))
           [] OTHER -> NoBounds

\* DataPoint(x, y, y_low, y_high, n, run_ids); the model in src has no quartile fields
DataPoint(x, y, bounds, n, run_ids) ==
    [x |-> x, y |-> y, bounds |-> bounds, n |-> n, run_ids |-> run_ids]

\* the aggregated point over the values of y_runs
Aggregated(x, y_runs, values, agg_fn, error_bars) ==
    DataPoint(x, _compute_agg(values, agg_fn),
              _compute_error_bounds(values, _compute_agg(values, agg_fn), error_bars),
              Len(y_runs), [k \in 1..Len(y_runs) |-> y_runs[k].run_id])

YFloat(run, y_field) == PyFloat(get_field_value(run, y_field)).f

\* the points built from x_to_ys[x]: one aggregated point when replicates are reduced
\* and there are several, else one point per run
PointsOf(x, y_runs, y_field, reduce_replicates, agg_fn, error_bars) ==
    IF reduce_replicates /\ Len(y_runs) > 1
    THEN <<Aggregated(x, y_runs, [k \in 1..Len(y_runs) |-> YFloat(y_runs[k], y_field)],
                      agg_fn, error_bars)>>
    ELSE [k \in 1..Len(y_runs) |->
             DataPoint(x, Fraction(YFloat(y_runs[k], y_field), 1), NoBounds, 1,
                       <<y_runs[k].run_id>>)]

RECURSIVE Flatten(_)
Flatten(seqs) == IF seqs = <<>> THEN <<>> ELSE Head(seqs) \o Flatten(Tail(seqs))

PointsAlong(xs, group, x_field, y_field, reduce_replicates, agg_fn, error_bars) ==
    Flatten([k \in 1..Len(xs) |->
                PointsOf(xs[k],
                         SelectSeq(group, LAMBDA run : get_field_value(run, x_field) = xs[k]),
                         y_field, reduce_replicates, agg_fn, error_bars)])

\* _aggregate_group(runs, ...): the points of one group, in the order of _sort_key(x)
_aggregate_group(group, x_field, y_field, reduce_replicates, agg_fn, error_bars) ==
    PointsAlong(Ordered({get_field_value(group[k], x_field) : k \in 1..Len(group)},
                        SortKeyBefore),
                group, x_field, y_field, reduce_replicates, agg_fn, error_bars)

Series(name, points) == [name |-> name, points |-> points]

AggregateResponse(series, total_runs) ==
    [status |-> "returned", series |-> series, total_runs |-> total_runs]

SeriesAlong(names, valid_runs, req) ==
    [k \in 1..Len(names) |->
        Series(names[k],
               _aggregate_group(SelectSeq(valid_runs,
                                          LAMBDA run : GroupKey(run, req.group_by) = names[k]),
                                req.x_field, req.y_field, req.reduce_replicates, req.agg_fn,
                                req.error_bars))]

Grouped(valid_runs, req) ==
    AggregateResponse(
        SelectSeq(SeriesAlong(Ordered({GroupKey(valid_runs[k], req.group_by) :
                                          k \in 1..Len(valid_runs)}, TextLess),
                              valid_runs, req),
                  LAMBDA s : s.points # <<>>),
        Len(valid_runs))

AggregateOf(valid_runs, req) ==
    IF valid_runs = <<>> THEN AggregateResponse(<<>>, 0) ELSE Grouped(valid_runs, req)

\* compute_aggregate(runs, request)
compute_aggregate(page, req) ==
    AggregateOf(SelectSeq(page, LAMBDA run : UsableRun(run, req.x_field, req.y_field)), req)

\* aggregate(request, store) on what store.query_runs returned
aggregate(r, req) ==
    IF r.raises # "" THEN [status |-> "raised", exception |-> r.raises]
    ELSE compute_aggregate(r.runs, req)

(***************************************************************************)
(* SpecAggregate: aggregate requests on bounded databases, with and without *)
(* the batch sweep                                                          *)
(***************************************************************************)
AggregateRunLimit == 100000

AggFn == {"mean", "median", "min", "max", "count", "sum"}
AggregateXFields == {"record.status", "metrics.score", "derived.x"}
\* y fields whose numeric values are all finite
AggregateYFields == {"metrics.score", "record.duration_ms"}
GroupBys == {<<>>, <<"record.experiment_id">>}
ErrorBarType == {"none", "std", "sem", "ci95"}
AggregateErrorBars == {"none", "ci95"}
AggregateFilters == {FilterNone, FilterSpec("expA", <<>>, VNone, VNone, <<>>)}

AggregateRequests(filter) ==
    [endpoint : {"aggregate"}, filter : {filter}, x_field : AggregateXFields,
     y_field : AggregateYFields, group_by : GroupBys, reduce_replicates : BOOLEAN,
     agg_fn : AggFn, error_bars : AggregateErrorBars]

InitAggregate ==
    /\ \/ runs \in SUBSET SearchRuns /\ bulk = 0
       \/ runs \in SweepWith /\ bulk \in {SweepPart, SweepSize}
    /\ experiment_schemas = _refresh_schema_cache(runs, bulk)
    /\ last = NoCall /\ sess = NoSession /\ ff = NoFilter /\ compiled = Pending
    /\ StoreIdle

AggregateAnswered(req, r) ==
    /\ request' = req
    /\ response' = aggregate(r, req)
    /\ experiment_schemas' = r.map
    /\ UNCHANGED <<runs, bulk, last, sess, ff, compiled, storeVars, callers, in_use>>

\* the requests with one filter, answered from the runs r that store.query_runs returned
AggregateOver(filter, r) ==
    \E req \in AggregateRequests(filter) : AggregateAnswered(req, r)

\* POST /api/aggregate
Aggregate ==
    /\ request = NoRequest
    /\ \E filter \in AggregateFilters, scan \in Scans :
          AggregateOver(filter, query_runs(experiment_schemas, runs, bulk, filter, None,
                                           "desc", AggregateRunLimit, 0, scan))

NextAggregate ==
    \/ Aggregate
    \/ SendResponse

SpecAggregate == InitAggregate /\ [][NextAggregate]_vars

\* all the runs the request's filter matches in the namespaces in scope: the rows of
\* query_runs without the page limit
MatchingRuns ==
    ScopedQuery(_scope_for_experiment(experiment_schemas, runs, bulk,
                                      request.filter.experiment_id),
                WhereClauses(request.filter), Table(runs, bulk), SortColumn(None), TRUE,
                Len(Table(runs, bulk)), 0, "heap").runs

\* the matching runs that have x in x_field and a non-null numeric y_field
Contributing(x) ==
    SelectSeq(MatchingRuns,
              LAMBDA run : /\ get_field_value(run, request.x_field) = x
                           /\ UsableRun(run, request.x_field, request.y_field))

ContributingValues(among) == [k \in 1..Len(among) |-> YFloat(among[k], request.y_field)]

\* the distinct x values of the runs that contribute
DistinctX ==
    {get_field_value(run, request.x_field) :
        run \in {r \in ValuesIn(MatchingRuns) :
                    UsableRun(r, request.x_field, request.y_field)}}

UngroupedRequest ==
    /\ request.endpoint = "aggregate"
    /\ request.group_by = <<>>
    /\ request.reduce_replicates

AllPoints == Flatten([k \in 1..Len(response.series) |-> response.series[k].points])

\* the point is the aggregate of the runs `among`
PointOver(point, among) ==
    /\ point.n = Len(among)
    /\ point.y = _compute_agg(ContributingValues(among), request.agg_fn)

SingleSeries ==
    /\ response.status = "returned"
    /\ Len(response.series) <= 1
    /\ \A k \in 1..Len(response.series) : response.series[k].name = "all"
    /\ Len(AllPoints) = Cardinality(DistinctX)
    /\ \A k \in 1..Len(AllPoints) :
          /\ AllPoints[k].x \in DistinctX
          /\ \A j \in 1..Len(AllPoints) : AllPoints[j].x = AllPoints[k].x => j = k
          /\ PointOver(AllPoints[k], Contributing(AllPoints[k].x))

\* C19: with no group_by the only series is "all", with one point per distinct x value
\* of the runs that have a non-null x and a numeric y; the point's n is the number of
\* those runs with that x and its y the chosen aggregate of their y values
C19_SingleSeries == UngroupedRequest => SingleSeries

\* more runs match the filter than query_runs returns in one page
BeyondPage == Len(MatchingRuns) > MAX_PAGE_SIZE

\* some x value has exactly one contributing run
LoneRun == \E x \in DistinctX : Len(Contributing(x)) = 1

\* where C19 does hold: the matching runs fit one page, and no count is asked over a
\* single run
AggregateWithinPage ==
    UngroupedRequest /\ ~BeyondPage /\ (request.agg_fn = "count" => ~LoneRun) => SingleSeries

\* a mean over several runs, all of them within the page, that is not a whole number
MeanOfMany ==
    /\ UngroupedRequest
    /\ ~BeyondPage
    /\ request.agg_fn = "mean"
    /\ \E k \in 1..Len(AllPoints) :
          /\ AllPoints[k].n >= 2
          /\ AllPoints[k].y.num % AllPoints[k].y.den # 0

\* a count over one run comes back as that run's y value: 10 where the count is 1
CountOfOne ==
    /\ UngroupedRequest
    /\ request.agg_fn = "count"
    /\ \E k \in 1..Len(AllPoints) : AllPoints[k].n = 1 /\ AllPoints[k].y = Fraction(10, 1)

\* a point whose n is the page size while more runs than that share its x
CappedPoint ==
    /\ UngroupedRequest
    /\ \E k \in 1..Len(AllPoints) :
          /\ AllPoints[k].n = MAX_PAGE_SIZE
          /\ Len(Contributing(AllPoints[k].x)) > MAX_PAGE_SIZE

\* C20: a point carries at most 100 run ids, and when more than 100 runs contribute
\* to it the list is cut to 100 while n is the full number of contributing runs
C20_RunIdsBounded ==
    request.endpoint = "aggregate" /\ response.status = "returned" =>
        \A k \in 1..Len(AllPoints) :
            /\ Len(AllPoints[k].run_ids) <= 100
            /\ AllPoints[k].n > 100 => Len(AllPoints[k].run_ids) = 100

\* what the engine does: every point lists all the runs it aggregates
RunIdsComplete ==
    request.endpoint = "aggregate" /\ response.status = "returned" =>
        \A k \in 1..Len(AllPoints) : Len(AllPoints[k].run_ids) = AllPoints[k].n

\* a point with more than 100 run ids
LongRunIds ==
    /\ request.endpoint = "aggregate"
    /\ response.status = "returned"
    /\ \E k \in 1..Len(AllPoints) : Len(AllPoints[k].run_ids) > 100

(***************************************************************************)
(* SpecErrorBounds: _compute_error_bounds applied to bounded lists of y     *)
(* values                                                                   *)
(***************************************************************************)
MaxValues == 36

\* lists of n values: all equal, or alternating between two values
ValueLists ==
    {[k \in 1..n |-> 10 + step * (k % 2)] : n \in 0..MaxValues, step \in {0, 10}}

InitErrorBounds ==
    /\ runs = {} /\ bulk = 0
    /\ experiment_schemas = <<>>
    /\ last = NoCall /\ sess = NoSession /\ ff = NoFilter /\ compiled = Pending
    /\ StoreIdle

\* _compute_error_bounds(y_values, y_agg, error_bars) as _aggregate_group calls it
ComputeErrorBounds ==
    /\ request = NoRequest
    /\ \E values \in ValueLists, agg_fn \in {"mean", "max"}, error_bars \in ErrorBarType :
          /\ request' = [endpoint |-> "error_bounds", values |-> values, agg_fn |-> agg_fn,
                         error_bars |-> error_bars]
          /\ response' = _compute_error_bounds(values, _compute_agg(values, agg_fn),
                                               error_bars)
    /\ UNCHANGED <<runs, bulk, experiment_schemas, last, sess, ff, compiled, storeVars,
                   callers, in_use>>

NextErrorBounds ==
    \/ ComputeErrorBounds
    \/ SendResponse

SpecErrorBounds == InitErrorBounds /\ [][NextErrorBounds]_vars

\* the multiplier C21 names for n values, in hundredths: 1.96 above 30 values, the
\* entry of df = n - 1 up to df 10, and the entry of the next tabulated df (15, 20, 25,
\* 30) for the df in between
ExpectedT(n) ==
    IF n > 30 THEN 196
    ELSE IF n - 1 <= 10
         THEN <<1271, 430, 318, 278, 257, 245, 236, 231, 226, 223>>[n - 1]
    ELSE IF n - 1 <= 15 THEN 213
    ELSE IF n - 1 <= 20 THEN 209
    ELSE IF n - 1 <= 25 THEN 206
    ELSE 204

Ci95Request == request.endpoint = "error_bounds" /\ request.error_bars = "ci95"

FiveValues == Ci95Request /\ Len(request.values) = 5 /\ response.given /\ response.t = 278

\* n = 35 uses 1.96
ManyValues == Ci95Request /\ Len(request.values) = 35 /\ response.given /\ response.t = 196

\* fewer than two values have no bounds, hence no multiplier
NoBoundsBelowTwo ==
    request.endpoint = "error_bounds" /\ Len(request.values) < 2 => response = NoBounds

(***************************************************************************)
(* SpecRuns: the two ways a run leaves the store, a page of query_runs and  *)
(* get_run                                                                  *)
(***************************************************************************)
RunsSortFields == {None, "record.duration_ms", "metrics.score"}
RunsFilters ==
    {FilterNone,
     FilterSpec("expA", <<>>, VNone, VNone, <<>>),
     FilterSpec(None, <<"running">>, VNone, VNone, <<>>)}
RunsLimits == {1, DEFAULT_PAGE_SIZE}

InitRuns ==
    /\ runs \in SUBSET SearchRuns
    /\ bulk = 0
    /\ experiment_schemas \in {<<>>, _refresh_schema_cache(runs, bulk)}
    /\ last = NoCall /\ sess = NoSession /\ ff = NoFilter /\ compiled = Pending
    /\ StoreIdle

PageAnswered(req, r) ==
    /\ request' = req
    /\ response' = IF r.raises # "" THEN [status |-> "raised", value |-> <<>>]
                   ELSE [status |-> "returned", value |-> r.runs]
    /\ experiment_schemas' = r.map
    /\ UNCHANGED <<runs, bulk, last, sess, ff, compiled, storeVars, callers, in_use>>

\* query_runs(filter, sort_by, sort_order, limit, offset)
QueryRuns ==
    /\ request = NoRequest
    /\ \E filter \in RunsFilters, sort_by \in RunsSortFields, sort_order \in {"asc", "desc"},
          limit \in RunsLimits, scan \in Scans :
          PageAnswered([endpoint |-> "query_runs", filter |-> filter, sort_by |-> sort_by,
                        sort_order |-> sort_order, limit |-> limit],
                       query_runs(experiment_schemas, runs, bulk, filter, sort_by, sort_order,
                                  limit, 0, scan))

\* get_run(run_id)
GetOneRun ==
    /\ request = NoRequest
    /\ GetRun

NextRuns ==
    \/ QueryRuns
    \/ GetOneRun
    \/ SendResponse

SpecRuns == InitRuns /\ [][NextRuns]_vars

\* the runs a response carries
ReturnedRuns ==
    IF response.status # "returned" THEN {}
    ELSE IF request.endpoint = "query_runs"
         THEN {response.value[k] : k \in 1..Len(response.value)}
    ELSE IF request.endpoint = "get_run" /\ response.value # VNone THEN {response.value}
    ELSE {}

\* C22: a run returned by query_runs or get_run with status running has neither
\* finished_at nor duration_ms, whatever its row stores
C22_RunningOpenEnded ==
    \A run \in ReturnedRuns :
        run.status = "running" => run.finished_at = VNone /\ run.duration_ms = VNone

\* get_run returned a running run whose row stores a finished_at and a duration
C22_RunningOpenEndedWitness ==
    /\ request.endpoint = "get_run"
    /\ \E run \in ReturnedRuns :
          /\ run.status = "running"
          /\ Row(run.run_id).finished_at > 0
          /\ Row(run.run_id).duration_ms > 0
          /\ run.finished_at = VNone

\* the same on a page of query_runs
RunningOnPage ==
    /\ request.endpoint = "query_runs"
    /\ \E run \in ReturnedRuns : run.status = "running" /\ Row(run.run_id).duration_ms > 0

\* runs that are not running keep what their row stores
FinishedKept ==
    \A run \in ReturnedRuns :
        run.status # "running" =>
            /\ run.finished_at = VInt(Row(run.run_id).finished_at)
            /\ run.duration_ms = VInt(Row(run.run_id).duration_ms)

(***************************************************************************)
(* refresh() against calls in flight.  get_field_index and list_experiments *)
(* test their cache on entry and write it on the way out, refresh() clears  *)
(* both caches and rebuilds the map; none of them takes a lock, so their    *)
(* steps interleave on the request threads.  A writer adds a run to the     *)
(* database before refresh() is called.                                     *)
(***************************************************************************)
NewRun == 3

\* a run is written to <schema>.runs while no refresh() has been called yet
InsertRunEarly ==
    /\ NewRun \notin runs
    /\ \A t \in Callers : callers[t].op # "refresh"
    /\ runs' = runs \cup {NewRun}
    /\ UNCHANGED <<bulk, experiment_schemas, last, sess, ff, compiled, storeVars, callVars>>

NextRace == (\E t \in Callers : Step(t)) \/ InsertRunEarly

SpecRace == InitPool /\ [][NextRace]_vars

HasReturned(op) == \E t \in Callers : callers[t].op = op /\ callers[t].status = "returned"

\* what a call made now returns, and what it computes from the rows of the database
LaterIndex(key) ==
    get_field_index(_field_index_cache, experiment_schemas, runs, bulk, catalog, now,
                    key).result
FreshIndex(key) ==
    get_field_index(<<>>, experiment_schemas, runs, bulk, catalog, now, key).result
LaterListing ==
    list_experiments(_experiments_cache, experiment_schemas, runs, bulk, now).result
FreshListing == list_experiments(NoCache, experiment_schemas, runs, bulk, now).result

\* the index and the listing of the database as it was before the run was written
EarlierIndex(key) ==
    get_field_index(<<>>, experiment_schemas, runs \ {NewRun}, bulk, catalog, now,
                    key).result
EarlierListing ==
    list_experiments(NoCache, experiment_schemas, runs \ {NewRun}, bulk, now).result

NoEarlierIndex ==
    (HasReturned("refresh") /\ HasReturned("get_field_index") /\ NewRun \in runs)
        => LaterIndex(None) # EarlierIndex(None)

NoEarlierListing ==
    (HasReturned("refresh") /\ HasReturned("list_experiments") /\ NewRun \in runs)
        => LaterListing # EarlierListing

\* C23: once refresh() and a get_field_index or list_experiments call that was in
\* flight when it ran have both returned, no later call returns a result computed
\* from the rows read before the refresh
C23_NoResultFromBefore == NoEarlierIndex /\ NoEarlierListing

\* a refresh() that ran with no other call on the adapter leaves nothing stale
RefreshAloneIsClean ==
    (HasReturned("refresh") /\ \E t \in Callers : callers[t].op = "idle")
        => /\ \A key \in PoolTenants : LaterIndex(key) = FreshIndex(key)
           /\ LaterListing = FreshListing

\* the overlap ended with the cache written after it was cleared, here with fresh rows
PutAfterRefresh ==
    /\ HasReturned("refresh") /\ HasReturned("get_field_index")
    /\ NewRun \in runs
    /\ None \in DOMAIN _field_index_cache
    /\ LaterIndex(None) = FreshIndex(None)

(***************************************************************************)
(* The tenant->namespace map while it is rebuilt.  _refresh_schema_cache   *)
(* clears the map and then fills it one namespace at a time; the threads    *)
(* of SpecPool read it between those steps.                                 *)
(***************************************************************************)
\* thread u is inside _refresh_schema_cache: namespaces are still to be read
Rebuilding(u) ==
    /\ callers[u].status = "running"
    /\ \E k \in 1..Len(callers[u].todo) : callers[u].todo[k].i = "fill"

\* thread t takes the step of _get_all_schemas that reads the map's values
ReadsAllSchemas(t) == At(t, {"values"}) /\ callers[t]' # callers[t]

\* the namespaces of the complete map: the database of SpecPool does not change, so
\* the map before a rediscovery and the map it finds name the same namespaces
KnownNamespaces ==
    {_refresh_schema_cache(runs, bulk)[e] : e \in DOMAIN _refresh_schema_cache(runs, bulk)}

SeesWholeSet ==
    \A t \in Callers :
        (ReadsAllSchemas(t) /\ \E u \in Callers \ {t} : Rebuilding(u))
            => callers[t].scope' = KnownNamespaces

\* C24: a _get_all_schemas call that runs while _refresh_schema_cache is in progress
\* on another thread sees the complete namespace set known before the rediscovery or
\* the complete set found by it, never a partly rebuilt subset
C24_WholeNamespaceSet == [][SeesWholeSet]_vars

\* the map holds every tenant of the database
MapComplete == experiment_schemas = _refresh_schema_cache(runs, bulk)

\* with a complete map, a read of its values gives every namespace
WholeSetFromCompleteMap ==
    [][\A t \in Callers : (ReadsAllSchemas(t) /\ MapComplete)
                              => callers[t].scope' = KnownNamespaces]_vars

\* a read between the clear and the last refill
ReadDuringRebuild ==
    \E t \in Callers :
        /\ At(t, {"values"})
        /\ \E u \in Callers \ {t} : Rebuilding(u)
        /\ ~MapComplete

\* no operation is running and one of them met a failed statement or a timeout
FailureBehind ==
    /\ \A t \in Callers : callers[t].status # "running"
    /\ \E t \in Callers : callers[t].faulted

\* C25: after a rediscovery that failed part-way the tenant->namespace map is
\* exactly what it was before, so every tenant resolvable before is still resolvable
C25_MapSurvivesFailure == FailureBehind => MapComplete

\* a failure of the catalog query or of a per-namespace query does not itself touch
\* the map: what is lost was lost at the clear
FailureKeepsMap ==
    [][\A t \in Callers :
          (At(t, {"exec", "fill"}) /\ callers[t].faulted' /\ ~callers[t].faulted)
              => experiment_schemas' = experiment_schemas]_vars

\* the state a failed per-namespace query leaves behind: some namespaces in the map
\* and the others missing, so that _get_all_schemas serves the subset without a
\* new rediscovery
SubsetServed ==
    /\ FailureBehind
    /\ DOMAIN experiment_schemas # {}
    /\ _get_all_schemas(experiment_schemas, runs, bulk).schemas # KnownNamespaces

(***************************************************************************)
(* The bins of a histogram against the runs the request matches             *)
(***************************************************************************)
\* the matching runs whose value in the requested field float() accepts
RunsWithValue ==
    SelectSeq(MatchingRuns, LAMBDA run : IsNumericValue(get_field_value(run, request.field)))

ValuesOf(with_value) ==
    [k \in 1..Len(with_value) |-> FloatOf(with_value[k], request.field).f]

IdsIn(list) == {list[j] : j \in 1..Len(list)}

\* the runs whose value is v
IdsWith(with_value, values, v) ==
    {with_value[k].run_id : k \in {j \in 1..Len(values) : values[j] = v}}

\* each run with a value is in exactly one list, once, and nothing else is
EachRunOnce(with_value, lists) ==
    /\ UNION {IdsIn(lists[b]) : b \in 1..Len(lists)}
          = {with_value[k].run_id : k \in 1..Len(with_value)}
    /\ SumSeq([b \in 1..Len(lists) |-> Len(lists[b])]) = Len(with_value)
    /\ \A b \in 1..Len(lists) : Cardinality(IdsIn(lists[b])) = Len(lists[b])

ListsMatchCounts(lists, counts) ==
    /\ Len(lists) = Len(counts)
    /\ \A b \in 1..Len(counts) : Len(lists[b]) = counts[b]

\* the runs holding the smallest value are in the first bin, those holding the
\* largest in the last
ExtremesAtEnds(with_value, values, lists) ==
    /\ IdsWith(with_value, values, MinOf(values)) \subseteq IdsIn(lists[1])
    /\ IdsWith(with_value, values, MaxOf(values)) \subseteq IdsIn(lists[Len(lists)])

BinsAssigned(with_value) ==
    with_value # <<>> =>
        /\ response.status = "returned"
        /\ Len(response.run_ids_per_bin) = request.bin_count
        /\ EachRunOnce(with_value, response.run_ids_per_bin)
        /\ ListsMatchCounts(response.run_ids_per_bin, response.counts)
        /\ ExtremesAtEnds(with_value, ValuesOf(with_value), response.run_ids_per_bin)

\* C26: every matching run with a value is in the run id list of exactly one of the
\* bin_count bins, once; the smallest value is in the first bin and the largest in
\* the last; list i has counts[i] entries
C26_BinAssignment == request.endpoint = "histogram" => BinsAssigned(RunsWithValue)

\* with one value only, numpy bins the range [v - 0.5, v + 0.5]: every run is in the
\* bin that holds its middle
AllInMiddle(with_value, lists, n) ==
    IdsIn(lists[(n \div 2) + 1]) = {with_value[k].run_id : k \in 1..Len(with_value)}

AssignedWithinPage(with_value, values, lists) ==
    with_value # <<>> =>
        /\ Len(lists) = request.bin_count
        /\ EachRunOnce(with_value, lists)
        /\ ListsMatchCounts(lists, response.counts)
        /\ IF MinOf(values) = MaxOf(values)
           THEN AllInMiddle(with_value, lists, request.bin_count)
           ELSE ExtremesAtEnds(with_value, values, lists)

\* when the matching runs fit one page and every value is finite, the lists are as
\* C26 says as soon as two values differ
BinsWithinPage ==
    (HistogramReturned /\ ~BeyondPage) =>
        AssignedWithinPage(RunsWithValue, ValuesOf(RunsWithValue), response.run_ids_per_bin)

\* values 10 and 30 in two bins: the first run alone in the first bin
TwoBinsSplit ==
    /\ HistogramReturned
    /\ request.bin_count = 2
    /\ response.bins = <<Fraction(40, 4), Fraction(80, 4), Fraction(120, 4)>>
    /\ response.counts = <<1, SweepPart>>

\* one value in three bins: the run is in the middle bin
LoneValueInMiddle ==
    /\ HistogramReturned
    /\ request.bin_count = 3
    /\ response.counts = <<0, 1, 0>>

\* more matching runs than one page of query_runs: the histogram counts the page
HistogramOfPage ==
    /\ HistogramReturned
    /\ BeyondPage
    /\ response.total = MAX_PAGE_SIZE
    /\ Len(RunsWithValue) > MAX_PAGE_SIZE

(***************************************************************************)
(* The totals and the hit lists of the search groups                        *)
(***************************************************************************)
SearchReturned == request.endpoint = "search" /\ response.status = "returned"

\* the categories whose total is not counted but derived from the hits
Approximated(path, category) ==
    \/ category = "fingerprints"
    \/ path = "native" /\ category = "tags"

\* C27: in the fingerprint category of both searches and in the experiment tag
\* category of the native search, total is len(hits) + 1 when the hits reached the
\* limit of the request and len(hits) otherwise
C27_ApproximateTotal ==
    SearchReturned =>
        \A k \in 1..Len(response.groups) :
            Approximated(request.path, response.groups[k].category) =>
                response.groups[k].total =
                    IF Len(response.groups[k].hits) >= request.limit
                    THEN Len(response.groups[k].hits) + 1
                    ELSE Len(response.groups[k].hits)

\* a group of `category` served on `path` whose hits reached the limit or stayed below
GroupAt(path, category, full) ==
    /\ SearchReturned
    /\ request.path = path
    /\ \E k \in 1..Len(response.groups) :
          /\ response.groups[k].category = category
          /\ (Len(response.groups[k].hits) = request.limit) = full
          /\ response.groups[k].total = Len(response.groups[k].hits) + (IF full THEN 1 ELSE 0)

C27_ApproximateTotalWitness == GroupAt("native", "fingerprints", TRUE)

FingerprintsBelowLimit == GroupAt("native", "fingerprints", FALSE)
GenericFingerprintsFull == GroupAt("generic", "fingerprints", TRUE)
GenericFingerprintsBelowLimit == GroupAt("generic", "fingerprints", FALSE)
TagsFull == GroupAt("native", "tags", TRUE)
TagsBelowLimit == GroupAt("native", "tags", FALSE)

DuplicateFree(hits) == \A i, j \in 1..Len(hits) : i # j => hits[i] # hits[j]

NativeReturned == SearchReturned /\ request.path = "native"

WellFormedGroup(g, limit) ==
    /\ DuplicateFree(g.hits)
    /\ Len(g.hits) <= limit
    /\ g.total >= Len(g.hits)

\* C28: in every group the native search returns, the hits are a duplicate-free list
\* of at most `limit` entities and total is at least their number
C28_DistinctHits ==
    NativeReturned =>
        \A k \in 1..Len(response.groups) : WellFormedGroup(response.groups[k], request.limit)

\* the categories whose statement has one row per entity
RowPerEntity(category) == category \notin {"run_tags", "field_names"}

\* what holds: no group is longer than the limit; apart from the run tags total is at
\* least the number of hits; the categories with one row per entity have no duplicates
NativeGroupsBounded ==
    NativeReturned =>
        \A k \in 1..Len(response.groups) :
            /\ Len(response.groups[k].hits) <= request.limit
            /\ response.groups[k].category # "run_tags"
                  => response.groups[k].total >= Len(response.groups[k].hits)
            /\ RowPerEntity(response.groups[k].category)
                  => DuplicateFree(response.groups[k].hits)

\* a run with two matching tags is listed twice and counted once
RunListedTwice ==
    /\ NativeReturned
    /\ \E k \in 1..Len(response.groups) :
          /\ response.groups[k].category = "run_tags"
          /\ Len(response.groups[k].hits) = 2
          /\ response.groups[k].hits[1] = response.groups[k].hits[2]
          /\ response.groups[k].total = 1

\* a field that two namespaces' catalogs hold is listed twice
FieldListedTwice ==
    /\ NativeReturned
    /\ \E k \in 1..Len(response.groups) :
          /\ response.groups[k].category = "field_names"
          /\ ~DuplicateFree(response.groups[k].hits)

(***************************************************************************)
(* The value sets of the Field Index.  On the introspection path a field's  *)
(* statistics are started by the first sampled value and updated by each    *)
(* one; on the catalog path a FieldInfo is built from a row of the          *)
(* field_catalog table.                                                     *)
(***************************************************************************)
ValueCap == 100

\* _infer_type(value)
_infer_type(value) ==
    CASE value.t = "bool" -> "boolean"
      [] value.t \in {"int", "float"} -> "numeric"
      [] value.t = "str" -> "string"
      [] OTHER -> "unknown"

\* _init_stats(value)
_init_stats(value) ==
    [type |-> _infer_type(value), count |-> 0, values |-> {}, min |-> VNone, max |-> VNone]

\* a Python number as an integer: True is 1 and False is 0
Number(value) ==
    CASE value.t = "int" -> value.i
      [] value.t = "float" -> value.f
      [] value.t = "bool" -> IF value.b THEN 1 ELSE 0

Lower2(stats, value) ==
    IF stats.min = VNone \/ Number(value) < Number(stats.min) THEN value ELSE stats.min
Upper2(stats, value) ==
    IF stats.max = VNone \/ Number(value) > Number(stats.max) THEN value ELSE stats.max

\* a value set that takes every value
AddAlways(values, value) == values \cup {PyStr(value)}

\* if len(stats["values"]) < 100: stats["values"].add(str(value))
AddBelowCap(values, value) ==
    IF Cardinality(values) < ValueCap THEN values \cup {PyStr(value)} ELSE values

\* _update_stats(stats, value)
_update_stats(stats, value) ==
    IF stats.type = "numeric" /\ value.t \in {"int", "float", "bool"}
    THEN [stats EXCEPT !.count = @ + 1, !.min = Lower2(stats, value),
                       !.max = Upper2(stats, value)]
    ELSE IF stats.type \in {"string", "boolean"}
         THEN [stats EXCEPT !.count = @ + 1, !.values = AddBelowCap(@, value)]
         ELSE [stats EXCEPT !.count = @ + 1]

\* FieldInfo(type, count, values, min_value, max_value); `listed` is FALSE when values
\* is None
FieldInfo(type, count, listed, values, min_value, max_value) ==
    [type |-> type, count |-> count, listed |-> listed, values |-> values,
     min_value |-> min_value, max_value |-> max_value]

\* _stats_to_field_info(stats): the values are listed in sorted order
_stats_to_field_info(stats) ==
    FieldInfo(stats.type, stats.count,
              stats.type \in {"string", "boolean"} /\ stats.values # {},
              IF stats.type \in {"string", "boolean"} THEN stats.values ELSE {},
              stats.min, stats.max)

\* a row of field_catalog: namespace, field_name, field_type, count, values, min, max
CatalogRow(field_type, count, listed, values) ==
    [field_type |-> field_type, count |-> count, listed |-> listed, values |-> values]

\* the FieldInfo _get_field_index_from_catalog builds from a row
CatalogFieldInfo(row) ==
    FieldInfo(IF row.field_type # "" THEN row.field_type ELSE "unknown", row.count,
              row.listed, row.values, VNone, VNone)

(***************************************************************************)
(* SpecFieldValues: one field's FieldInfo on the two paths                  *)
(***************************************************************************)
MaxPayloads == 103

Text(k) == "v" \o NatToStr(k)

FirstValues == {VStr(Text(1)), VInt(7), VBool(TRUE), VNone}

\* the value of the field in the next payload: one not seen yet, one seen, a number
NextValues(stats) ==
    {VStr(Text(Cardinality(stats.values \ {"7", "3", "True"}) + 1)), VStr(Text(1)),
     VInt(7), VInt(3)}

\* the values column of a catalog row: NULL, or a list of n strings
CatalogValueCounts == {0, 1, ValueCap, ValueCap + 1}
CatalogValueRows ==
    {CatalogRow("string", 5, FALSE, {})}
        \cup {CatalogRow(type, n + 5, TRUE, {Text(k) : k \in 1..n}) :
                 type \in {"string", "boolean", ""}, n \in CatalogValueCounts}

InitFieldValues ==
    /\ runs = {} /\ bulk = 0
    /\ experiment_schemas = <<>>
    /\ last = NoCall /\ sess = NoSession /\ ff = NoFilter /\ compiled = Pending
    /\ StoreIdle

FieldValuesUnchanged ==
    UNCHANGED <<runs, bulk, experiment_schemas, last, sess, ff, compiled, storeVars,
                callers, in_use>>

\* the first sampled payload that holds the field: `if key not in stats` starts its
\* statistics, then the value is counted
FirstPayload ==
    /\ request = NoRequest
    /\ \E value \in FirstValues :
          /\ request' = [endpoint |-> "stats", payloads |-> 1]
          /\ response' = _update_stats(_init_stats(value), value)
    /\ FieldValuesUnchanged

\* a further sampled payload that holds the field
NextPayload ==
    /\ request.endpoint = "stats"
    /\ request.payloads < MaxPayloads
    /\ \E value \in NextValues(response) :
          /\ request' = [request EXCEPT !.payloads = @ + 1]
          /\ response' = _update_stats(response, value)
    /\ FieldValuesUnchanged

\* the sample is read: the statistics become the field's FieldInfo
IntrospectedInfo ==
    /\ request.endpoint = "stats"
    /\ request' = [endpoint |-> "field_info", path |-> "jsonb", payloads |-> request.payloads]
    /\ response' = _stats_to_field_info(response)
    /\ FieldValuesUnchanged

\* the catalog path builds the field's FieldInfo from its row
CatalogInfo ==
    /\ request = NoRequest
    /\ \E row \in CatalogValueRows :
          /\ request' = [endpoint |-> "field_info", path |-> "catalog", payloads |-> 0]
          /\ response' = CatalogFieldInfo(row)
    /\ FieldValuesUnchanged

\* get_field_index returns
FieldIndexReturned ==
    /\ request.endpoint = "field_info"
    /\ request' = NoRequest
    /\ response' = NoResponse
    /\ FieldValuesUnchanged

NextFieldValues ==
    \/ FirstPayload
    \/ NextPayload
    \/ IntrospectedInfo
    \/ CatalogInfo
    \/ FieldIndexReturned

SpecFieldValues == InitFieldValues /\ [][NextFieldValues]_vars

\* C29: every FieldInfo of a returned FieldIndex carries at most 100 values, on the
\* catalog path and on the introspection path
C29_ValuesBounded ==
    request.endpoint = "field_info" => Cardinality(response.values) <= ValueCap

\* the introspection path keeps the bound at every payload, and the FieldInfo it
\* returns lists values only for string and boolean fields
IntrospectionBounded ==
    /\ request.endpoint = "stats" => Cardinality(response.values) <= ValueCap
    /\ (request.endpoint = "field_info" /\ request.path = "jsonb") =>
          /\ Cardinality(response.values) <= ValueCap
          /\ response.listed => response.type \in {"string", "boolean"}

\* more than 100 payloads held the field and its FieldInfo lists exactly 100 values
CapReached ==
    /\ request.endpoint = "field_info" /\ request.path = "jsonb"
    /\ request.payloads > ValueCap
    /\ Cardinality(response.values) = ValueCap

\* a catalog row with more than 100 values, handed on as it is
LongCatalogRow ==
    /\ request.endpoint = "field_info" /\ request.path = "catalog"
    /\ Cardinality(response.values) = ValueCap + 1

(***************************************************************************)
(* GET /api/search: the router's dispatch between the store's native search *)
(* and the generic search                                                   *)
(***************************************************************************)
\* a store object: its class and the methods it has
Store(class, methods) == [class |-> class, methods |-> methods]

StoreAdapterMethods == {"query_runs", "get_run", "get_field_index", "list_experiments",
                        "get_experiment_manifest", "refresh"}

StoreKinds ==
    {Store("PostgresStoreAdapter", StoreAdapterMethods \cup {"search"}),
     Store("MockSearchStore", {"search"}),
     Store("RemoteStoreAdapter", StoreAdapterMethods)}

\* a dispatch on the class of the store
IsPostgresStore(store) == store.class = "PostgresStoreAdapter"

\* isinstance(store, SupportsSearch): the runtime-checkable protocol asks for the
\* method `search` and nothing else
SupportsSearch(store) == "search" \in store.methods

Whitespace == {" ", "\t", "\n"}

\* str.strip()
RECURSIVE LStrip(_)
LStrip(s) == IF s # "" /\ CharAt(s, 1) \in Whitespace THEN LStrip(SubSeq(s, 2, Len(s))) ELSE s
RECURSIVE RStrip(_)
RStrip(s) ==
    IF s # "" /\ CharAt(s, Len(s)) \in Whitespace THEN RStrip(SubSeq(s, 1, Len(s) - 1)) ELSE s
Strip(s) == RStrip(LStrip(s))

SearchResponse(status, query, groups, calls) ==
    [status |-> status, query |-> query, groups |-> groups, calls |-> calls]

\* the body of the endpoint for the stripped query q; `native` is what store.search
\* answers, `calls` lists what the endpoint called
Dispatched(store, q, limit, native, rs, bk) ==
    IF q = "" THEN SearchResponse("returned", q, <<>>, <<>>)
    ELSE IF SupportsSearch(store)
         THEN SearchResponse(native.status, q, native.groups, <<"store.search">>)
         ELSE SearchResponse("returned", q, _generic_search(rs, bk, q, limit),
                             <<"_generic_search">>)

\* q: str = Query(..., min_length=1): an empty q is refused before the endpoint runs
search_endpoint(store, q, limit, native, rs, bk) ==
    IF Len(q) < 1 THEN SearchResponse("unprocessable", q, <<>>, <<>>)
    ELSE Dispatched(store, Strip(q), limit, native, rs, bk)

(***************************************************************************)
(* SpecEndpoint: search requests through the router, over the three stores  *)
(***************************************************************************)
RawQueries == {"", " ", " \t ", " fp ", "EXPA", "base\n", "zzz"}

EndpointAnswered(store, q, limit, native) ==
    /\ request' = [endpoint |-> "search_endpoint", store |-> store, q |-> q, limit |-> limit]
    /\ response' = search_endpoint(store, q, limit, native, runs, bulk)
    /\ experiment_schemas' =
          IF response'.calls = <<"store.search">> THEN native.map ELSE experiment_schemas
    /\ _experiments_cache' =
          IF response'.calls = <<"store.search">> THEN native.ecache ELSE _experiments_cache
    /\ UNCHANGED <<runs, bulk, last, sess, ff, compiled, catalog, _field_index_cache, now,
                   callers, in_use>>

\* GET /api/search?q=...&limit=...
SearchEndpoint ==
    /\ request = NoRequest
    /\ \E store \in StoreKinds, q \in RawQueries, limit \in SearchLimits :
          EndpointAnswered(store, q, limit,
                           search(_experiments_cache, experiment_schemas, runs, bulk, catalog,
                                  now, Strip(q), limit))

NextEndpoint ==
    \/ SearchEndpoint
    \/ SendResponse

SpecEndpoint == InitSearch /\ [][NextEndpoint]_vars

\* the query holds nothing but whitespace
Blank(q) == \A k \in 1..Len(q) : CharAt(q, k) \in Whitespace

\* C30: a query that is not blank is served by the store's native search exactly when
\* the store has a search method and by the generic search otherwise, never by both;
\* a query that is blank after stripping gets empty groups and the store is not called
C30_Dispatch ==
    request.endpoint = "search_endpoint" /\ request.q # "" =>
        IF Blank(request.q)
        THEN /\ response.status = "returned"
             /\ response.groups = <<>>
             /\ response.calls = <<>>
        ELSE /\ "search" \in request.store.methods
                   <=> response.calls = <<"store.search">>
             /\ "search" \notin request.store.methods
                   <=> response.calls = <<"_generic_search">>
             /\ response.calls = <<"_generic_search">>
                   => response.groups =
                         _generic_search(runs, bulk, Strip(request.q), request.limit)

\* a store that is not the Postgres adapter is served natively, with hits
C30_DispatchWitness ==
    /\ request.endpoint = "search_endpoint"
    /\ request.store.class = "MockSearchStore"
    /\ ~Blank(request.q)
    /\ response.calls = <<"store.search">>
    /\ response.groups # <<>>

GenericServed ==
    /\ request.endpoint = "search_endpoint"
    /\ response.calls = <<"_generic_search">>
    /\ response.groups # <<>>

BlankServed ==
    /\ request.endpoint = "search_endpoint"
    /\ request.q = " \t "
    /\ response.groups = <<>> /\ response.calls = <<>>

\* an empty q never reaches the endpoint
EmptyRefused ==
    (request.endpoint = "search_endpoint" /\ request.q = "")
        => response.status = "unprocessable" /\ response.calls = <<>>

====
